---- MODULE Spec2Model ----
(***************************************************************************)
(* Manifest standardization of ecothrift-dashboard: the formula engine     *)
(* (apps/inventory/formula_engine.py) and the column-mapping and row       *)
(* normalization pipeline around it (apps/inventory/views.py).             *)
(*                                                                         *)
(* A Python str is a sequence of one-character strings.  An optional value *)
(* (None, or a key absent from a dict) is <<>> and a present value v is    *)
(* <<v>>.  A raised exception is an outcome record whose kind names the    *)
(* exception class.                                                        *)
(***************************************************************************)
EXTENDS Integers, Sequences, FiniteSets, TLC

VARIABLES
    argFormula,     \* formula engine: the formula text handed to the public API
    argRow,         \* formula engine: the row dict handed to evaluate_formula
    evalResult,     \* outcome of evaluate_formula(argFormula, argRow), <<>> before the call
    validateResult, \* outcome of validate_formula(argFormula), <<>> before the call
    templates,      \* the CSVTemplate table, in id order
    lastTemplateId, \* the last id the CSVTemplate table handed out
    request,        \* arguments of the last pipeline call
    response,       \* outcome of the last pipeline call
    orders,         \* the PurchaseOrder table, by primary key
    manifest_rows,  \* the ManifestRow table, in creation order
    items,          \* the Item table, in id order
    tables,         \* the Product, BatchGroup, ProcessingBatch, ItemHistory,
                    \* ItemScanHistory and S3File tables and the ids handed out
    carts,          \* the Cart table with each cart's lines
    calls           \* the requests being served, each with its position and locals

vars ==
    <<argFormula, argRow, evalResult, validateResult, templates, lastTemplateId, request,
      response, orders, manifest_rows, items, tables, carts, calls>>

\* the tables and the requests of the order and cart handlers
storeVars == <<items, tables, carts, calls>>

\* the other tables when they are empty; last_id holds, per table, the last
\* id handed out
NoTables ==
    [products |-> <<>>, batch_groups |-> <<>>, processing_batches |-> <<>>,
     item_history |-> <<>>, item_scans |-> <<>>, files |-> {},
     last_id |-> [items |-> 0, products |-> 0, batch_groups |-> 0, processing_batches |-> 0,
                  manifest_rows |-> 0]]

---------------------------------------------------------------------------
(* Bounds of the model *)

MaxArgs == 3
MaxLines == 2
MaxSelection == 2
MaxTemplates == 2
MaxCalls == 2
MaxTokens == 5
MaxPieces == 4

---------------------------------------------------------------------------
(* Python str operations *)

IsSpace(c) == c \in {" ", "\t", "\n", "\r"}

DigitChars == <<"0", "1", "2", "3", "4", "5", "6", "7", "8", "9">>

IsDigit(c) == \E i \in 1..10 : DigitChars[i] = c

DigitVal(c) == (CHOOSE i \in 1..10 : DigitChars[i] = c) - 1

LowerChars == <<"a", "b", "c", "d", "e", "f", "g", "h", "i", "j", "k", "l", "m", "n", "o", "p", "q", "r", "s", "t", "u", "v", "w", "x", "y", "z">>

UpperChars == <<"A", "B", "C", "D", "E", "F", "G", "H", "I", "J", "K", "L", "M", "N", "O", "P", "Q", "R", "S", "T", "U", "V", "W", "X", "Y", "Z">>

IsLower(c) == \E i \in 1..26 : LowerChars[i] = c

IsUpper(c) == \E i \in 1..26 : UpperChars[i] = c

IsCased(c) == IsLower(c) \/ IsUpper(c)

ToUpper(c) == IF IsLower(c) THEN UpperChars[CHOOSE i \in 1..26 : LowerChars[i] = c] ELSE c

ToLower(c) == IF IsUpper(c) THEN LowerChars[CHOOSE i \in 1..26 : UpperChars[i] = c] ELSE c

StrUpper(s) == [i \in 1..Len(s) |-> ToUpper(s[i])]

StrLower(s) == [i \in 1..Len(s) |-> ToLower(s[i])]

\* str.title(): a cased character is uppercased when it starts a run of cased
\* characters and lowercased inside the run.
StrTitle(s) ==
    [i \in 1..Len(s) |->
        IF i > 1 /\ IsCased(s[i - 1]) THEN ToLower(s[i]) ELSE ToUpper(s[i])]

RECURSIVE LStrip(_)
LStrip(s) == IF s # <<>> /\ IsSpace(Head(s)) THEN LStrip(Tail(s)) ELSE s

RECURSIVE RStrip(_)
RStrip(s) ==
    IF s # <<>> /\ IsSpace(s[Len(s)]) THEN RStrip(SubSeq(s, 1, Len(s) - 1)) ELSE s

StrStrip(s) == RStrip(LStrip(s))

\* str.replace(old, new): non-overlapping occurrences, left to right; an empty
\* old matches before every character and at the end.
RECURSIVE StrReplace(_, _, _)
StrReplace(s, old, new) ==
    IF old = <<>>
    THEN IF s = <<>> THEN new
         ELSE new \o <<Head(s)>> \o StrReplace(Tail(s), old, new)
    ELSE IF Len(s) < Len(old) THEN s
    ELSE IF SubSeq(s, 1, Len(old)) = old
         THEN new \o StrReplace(SubSeq(s, Len(old) + 1, Len(s)), old, new)
         ELSE <<Head(s)>> \o StrReplace(Tail(s), old, new)

\* ''.join(parts)
RECURSIVE StrJoin(_)
StrJoin(parts) == IF parts = <<>> THEN <<>> ELSE Head(parts) \o StrJoin(Tail(parts))

\* sep.join(parts)
RECURSIVE JoinWith(_, _)
JoinWith(parts, sep) ==
    IF parts = <<>> THEN <<>>
    ELSE IF Len(parts) = 1 THEN parts[1]
    ELSE parts[1] \o sep \o JoinWith(Tail(parts), sep)

\* s[:n]
SliceTo(s, n) ==
    IF n >= 0 THEN SubSeq(s, 1, IF n < Len(s) THEN n ELSE Len(s))
    ELSE SubSeq(s, 1, Len(s) + n)

\* s[-n:] for n > 0
SliceLast(s, n) == IF n >= Len(s) THEN s ELSE SubSeq(s, Len(s) - n + 1, Len(s))

RECURSIVE DigitsValue(_, _)
DigitsValue(s, acc) ==
    IF s = <<>> THEN acc
    ELSE IF Head(s) = "_" THEN DigitsValue(Tail(s), acc)
    ELSE DigitsValue(Tail(s), acc * 10 + DigitVal(Head(s)))

\* int(str): surrounding whitespace, one optional sign, digits with single
\* underscores between them; anything else raises ValueError (ok = FALSE).
PyInt(s) ==
    LET Valid(body) ==
            /\ body # <<>>
            /\ IsDigit(body[1])
            /\ IsDigit(body[Len(body)])
            /\ \A i \in 1..Len(body) :
                \/ IsDigit(body[i])
                \/ body[i] = "_" /\ i > 1 /\ i < Len(body) /\ IsDigit(body[i - 1])
        Value(negative, body) ==
            IF Valid(body)
            THEN [ok |-> TRUE,
                  val |-> IF negative THEN 0 - DigitsValue(body, 0) ELSE DigitsValue(body, 0)]
            ELSE [ok |-> FALSE, val |-> 0]
        Signed(t) ==
            IF t # <<>> /\ t[1] \in {"+", "-"} THEN Value(t[1] = "-", Tail(t))
            ELSE Value(FALSE, t)
    IN  Signed(StrStrip(s))

RECURSIVE NatToStr(_)
NatToStr(n) ==
    IF n < 10 THEN <<DigitChars[n + 1]>>
    ELSE NatToStr(n \div 10) \o <<DigitChars[(n % 10) + 1]>>

\* str(int)
IntToStr(n) == IF n < 0 THEN <<"-">> \o NatToStr(0 - n) ELSE NatToStr(n)

---------------------------------------------------------------------------
(* formula_engine.py: messages and outcomes *)

\* The text of an exception: id names the message template, the other fields
\* are what the template interpolates (pos = -1: the message cites no position).
Message(id, name, kind, text, n, got, pos) ==
    [id |-> id, name |-> name, kind |-> kind, text |-> text, n |-> n, got |-> got, pos |-> pos]

NoMessage == Message("", <<>>, "", <<>>, 0, 0, -1)

Returned(value) == [kind |-> "ok", value |-> value, msg |-> NoMessage]

FormulaError(msg) == [kind |-> "FormulaError", value |-> <<>>, msg |-> msg]

ValueError == [kind |-> "ValueError", value |-> <<>>, msg |-> NoMessage]

\* a result variable before the call
NotCalled == <<>>

---------------------------------------------------------------------------
(* formula_engine.py: tokenizer *)

FUNC_NAMES ==
    <<<<"U", "P", "P", "E", "R">>, <<"L", "O", "W", "E", "R">>, <<"T", "I", "T", "L", "E">>, <<"T", "R", "I", "M">>, <<"R", "E", "P", "L", "A", "C", "E">>, <<"C", "O", "N", "C", "A", "T">>, <<"L", "E", "F", "T">>, <<"R", "I", "G", "H", "T">>>>

NoMatch == [kind |-> "NONE", stop |-> 0]

StartsWith(s, i, text) ==
    i + Len(text) - 1 <= Len(s) /\ SubSeq(s, i, i + Len(text) - 1) = text

\* first index >= i that holds no whitespace (Len(s) + 1 when there is none)
RECURSIVE SkipSpace(_, _)
SkipSpace(s, i) == IF i <= Len(s) /\ IsSpace(s[i]) THEN SkipSpace(s, i + 1) ELSE i

RECURSIVE SkipDigits(_, _)
SkipDigits(s, i) == IF i <= Len(s) /\ IsDigit(s[i]) THEN SkipDigits(s, i + 1) ELSE i

\* "(?:[^"\\]|\\.)*" from the opening quote at i - 1: the index of the closing
\* quote, 0 when the pattern does not match
RECURSIVE ScanString(_, _)
ScanString(s, j) ==
    IF j > Len(s) THEN 0
    ELSE IF s[j] = "\"" THEN j
    ELSE IF s[j] = "\\"
         THEN IF j + 1 <= Len(s) /\ s[j + 1] # "\n" THEN ScanString(s, j + 2) ELSE 0
    ELSE ScanString(s, j + 1)

\* \[([^\]]+)\] from the opening bracket at i: the index of the closing bracket
RECURSIVE ScanColref(_, _)
ScanColref(s, j) ==
    IF j > Len(s) THEN 0
    ELSE IF s[j] = "]" THEN j
    ELSE ScanColref(s, j + 1)

\* the FUNC pattern without its lookahead for '(': the variant C22 must tell
\* from MatchFunc
MatchFunc_WithoutLookahead(s, i) ==
    LET names == {k \in 1..Len(FUNC_NAMES) : StartsWith(s, i, FUNC_NAMES[k])}
    IN  IF names = {} THEN 0
        ELSE i + Len(FUNC_NAMES[CHOOSE x \in names : \A y \in names : x <= y]) - 1

\* (UPPER|...|RIGHT)\s*(?=\() at i: the index of the last character matched
MatchFunc(s, i) ==
    LET names == {k \in 1..Len(FUNC_NAMES) : StartsWith(s, i, FUNC_NAMES[k])}
    IN  IF names = {} THEN 0
        ELSE LET k == CHOOSE x \in names : \A y \in names : x <= y
                 after == SkipSpace(s, i + Len(FUNC_NAMES[k]))
             IN  IF after <= Len(s) /\ s[after] = "(" THEN after - 1 ELSE 0

\* _TOKEN_RE anchored at i: the first alternative of TOKEN_PATTERNS that matches
MatchAt(s, i) ==
    LET c == s[i]
        str == IF c = "\"" THEN ScanString(s, i + 1) ELSE 0
        col == IF c = "[" THEN ScanColref(s, i + 1) ELSE 0
        fn  == MatchFunc(s, i)
    IN  IF str > 0 THEN [kind |-> "STRING", stop |-> str]
        ELSE IF col > i + 1 THEN [kind |-> "COLREF", stop |-> col]
        ELSE IF fn > 0 THEN [kind |-> "FUNC", stop |-> fn]
        ELSE IF IsDigit(c) THEN [kind |-> "NUMBER", stop |-> SkipDigits(s, i) - 1]
        ELSE IF c = "(" THEN [kind |-> "LPAREN", stop |-> i]
        ELSE IF c = ")" THEN [kind |-> "RPAREN", stop |-> i]
        ELSE IF c = "," THEN [kind |-> "COMMA", stop |-> i]
        ELSE IF c = "+" THEN [kind |-> "PLUS", stop |-> i]
        ELSE IF IsSpace(c) THEN [kind |-> "WS", stop |-> SkipSpace(s, i) - 1]
        ELSE NoMatch

\* _TOKEN_RE.finditer: the leftmost match at or after i
RECURSIVE NextMatch(_, _)
NextMatch(s, i) ==
    LET Found(m) ==
            IF m.kind # "NONE" THEN [kind |-> m.kind, start |-> i, stop |-> m.stop]
            ELSE NextMatch(s, i + 1)
    IN  IF i > Len(s) THEN [kind |-> "NONE", start |-> i, stop |-> 0]
        ELSE Found(MatchAt(s, i))

\* the value of a match with only the escaped quote decoded: the variant C23
\* must tell from TokenValue
TokenValue_OnlyQuoteEscape(s, m) ==
    LET value == SubSeq(s, m.start, m.stop)
    IN  IF m.kind = "STRING"
        THEN StrReplace(SubSeq(value, 2, Len(value) - 1), <<"\\", "\"">>, <<"\"">>)
        ELSE IF m.kind = "COLREF" THEN SubSeq(value, 2, Len(value) - 1)
        ELSE IF m.kind = "FUNC" THEN StrStrip(value)
        ELSE value

\* the value tokenize keeps for a match
TokenValue(s, m) ==
    LET value == SubSeq(s, m.start, m.stop)
    IN  IF m.kind = "STRING"
        THEN StrReplace(StrReplace(SubSeq(value, 2, Len(value) - 1), <<"\\", "\"">>, <<"\"">>), <<"\\", "\\">>, <<"\\">>)
        ELSE IF m.kind = "COLREF" THEN SubSeq(value, 2, Len(value) - 1)
        ELSE IF m.kind = "FUNC" THEN StrStrip(value)
        ELSE value

\* the loop of tokenize; p is the 1-based index of the character at Python's pos
RECURSIVE TokenizeFrom(_, _, _)
TokenizeFrom(s, p, tokens) ==
    LET Step(m) ==
            IF m.kind = "NONE"
            THEN IF p - 1 # Len(s) /\ StrStrip(SubSeq(s, p, Len(s))) # <<>>
                 THEN [err |-> TRUE, tokens |-> <<>>,
                       msg |-> Message("Unexpected characters at end", <<>>, "",
                                       StrStrip(SubSeq(s, p, Len(s))), 0, 0, -1)]
                 ELSE [err |-> FALSE, tokens |-> tokens, msg |-> NoMessage]
            ELSE IF m.start # p /\ StrStrip(SubSeq(s, p, m.start - 1)) # <<>>
            THEN [err |-> TRUE, tokens |-> <<>>,
                  msg |-> Message("Unexpected characters", <<>>, "",
                                  StrStrip(SubSeq(s, p, m.start - 1)), 0, 0, p - 1)]
            ELSE TokenizeFrom(s, m.stop + 1,
                     IF m.kind = "WS" THEN tokens
                     ELSE Append(tokens, [kind |-> m.kind, value |-> TokenValue(s, m)]))
    IN  Step(NextMatch(s, p))

tokenize(s) == TokenizeFrom(s, 1, <<>>)

---------------------------------------------------------------------------
(* formula_engine.py: AST nodes and the recursive-descent parser *)

StringLiteral(value) == [type |-> "StringLiteral", value |-> value]

NumberLiteral(value) == [type |-> "NumberLiteral", value |-> value]

ColumnRef(name) == [type |-> "ColumnRef", name |-> name]

FuncCall(name, args) == [type |-> "FuncCall", name |-> name, args |-> args]

ConcatOp(left, right) == [type |-> "ConcatOp", left |-> left, right |-> right]

NoNode == [type |-> "None"]

\* a parsing method's outcome: the node built and the parser's pos afterwards
\* (1-based), or the FormulaError raised
Parsed(node, pos) == [err |-> FALSE, node |-> node, pos |-> pos, msg |-> NoMessage]

ParseError(msg) == [err |-> TRUE, node |-> NoNode, pos |-> 0, msg |-> msg]

UnexpectedEnd == Message("Unexpected end of expression", <<>>, "", <<>>, 0, 0, -1)

UnexpectedToken(tok) == Message("Unexpected token", <<>>, tok.kind, tok.value, 0, 0, -1)

\* Parser.consume(expected_kind) at pos: the message of the FormulaError it
\* raises, NoMessage when it consumes the token
ConsumeError(tokens, pos, expected_kind) ==
    IF pos > Len(tokens) THEN UnexpectedEnd
    ELSE IF tokens[pos].kind # expected_kind
         THEN Message("Expected", <<>>, tokens[pos].kind, tokens[pos].value, 0, 0, -1)
    ELSE NoMessage

ExpectedKind(msg) == msg.id = "Expected"

RECURSIVE parse_concat(_, _)
RECURSIVE parse_primary(_, _)
RECURSIVE ParseConcatLoop(_, _, _)
RECURSIVE ParseArgsLoop(_, _, _)

\* self.consume(expected_kind) after the sub-parse r
ThenConsume(tokens, r, expected_kind) ==
    IF r.err THEN r
    ELSE IF ConsumeError(tokens, r.pos, expected_kind) # NoMessage
    THEN ParseError(ConsumeError(tokens, r.pos, expected_kind))
    ELSE Parsed(r.node, r.pos + 1)

\* the while loop of parse_concat
ParseConcatLoop(tokens, left, pos) ==
    LET Concat(right) ==
            IF right.err THEN right
            ELSE ParseConcatLoop(tokens, ConcatOp(left, right.node), right.pos)
    IN  IF pos <= Len(tokens) /\ tokens[pos].kind = "PLUS"
        THEN Concat(parse_primary(tokens, pos + 1))
        ELSE Parsed(left, pos)

parse_concat(tokens, pos) ==
    LET Loop(left) == IF left.err THEN left ELSE ParseConcatLoop(tokens, left.node, left.pos)
    IN  Loop(parse_primary(tokens, pos))

\* the while loop over COMMA of parse_primary; args holds the args parsed so far
ParseArgsLoop(tokens, args, pos) ==
    LET More(arg) ==
            IF arg.err THEN arg
            ELSE ParseArgsLoop(tokens, Append(args, arg.node), arg.pos)
    IN  IF pos <= Len(tokens) /\ tokens[pos].kind = "COMMA"
        THEN More(parse_concat(tokens, pos + 1))
        ELSE Parsed(args, pos)

parse_primary(tokens, pos) ==
    LET tok == tokens[pos]
        Args(first) ==
            IF first.err THEN first
            ELSE ParseArgsLoop(tokens, <<first.node>>, first.pos)
        Call(args) == IF args.err THEN args ELSE Parsed(FuncCall(tok.value, args.node), args.pos)
    IN  IF pos > Len(tokens) THEN ParseError(UnexpectedEnd)
        ELSE IF tok.kind = "STRING" THEN Parsed(StringLiteral(tok.value), pos + 1)
        ELSE IF tok.kind = "NUMBER" THEN Parsed(NumberLiteral(PyInt(tok.value).val), pos + 1)
        ELSE IF tok.kind = "COLREF" THEN Parsed(ColumnRef(tok.value), pos + 1)
        ELSE IF tok.kind = "FUNC"
        THEN IF ConsumeError(tokens, pos + 1, "LPAREN") # NoMessage
             THEN ParseError(ConsumeError(tokens, pos + 1, "LPAREN"))
             ELSE Call(ThenConsume(tokens,
                                   IF pos + 2 <= Len(tokens) /\ tokens[pos + 2].kind # "RPAREN"
                                   THEN Args(parse_concat(tokens, pos + 2))
                                   ELSE Parsed(<<>>, pos + 2),
                                   "RPAREN"))
        ELSE IF tok.kind = "LPAREN"
        THEN ThenConsume(tokens, parse_concat(tokens, pos + 1), "RPAREN")
        ELSE ParseError(UnexpectedToken(tok))

\* parse() without its test for tokens left after the expression: the variant
\* C20 must tell from parse
parse_KeepingLeftover(tokens) == parse_concat(tokens, 1)

\* Parser(tokens).parse()
parse(tokens) ==
    LET End(top) ==
            IF top.err THEN top
            ELSE IF top.pos <= Len(tokens) THEN ParseError(UnexpectedToken(tokens[top.pos]))
            ELSE top
    IN  End(parse_concat(tokens, 1))

---------------------------------------------------------------------------
(* formula_engine.py: evaluator and public API *)

\* FUNC_ARG_COUNTS.get(name, (0, None)); max = -1 stands for None
FUNC_ARG_COUNTS(name) ==
    IF name \in {<<"U", "P", "P", "E", "R">>, <<"L", "O", "W", "E", "R">>, <<"T", "I", "T", "L", "E">>, <<"T", "R", "I", "M">>} THEN [min |-> 1, max |-> 1]
    ELSE IF name = <<"R", "E", "P", "L", "A", "C", "E">> THEN [min |-> 3, max |-> 3]
    ELSE IF name = <<"C", "O", "N", "C", "A", "T">> THEN [min |-> 1, max |-> -1]
    ELSE IF name \in {<<"L", "E", "F", "T">>, <<"R", "I", "G", "H", "T">>} THEN [min |-> 2, max |-> 2]
    ELSE [min |-> 0, max |-> -1]

\* text[-int(n):] without the test int(n) > 0: the variant C17 must tell from
\* Right (s[-0:] is all of s)
Right_WithoutZeroTest(text, n) ==
    IF ~n.ok THEN ValueError
    ELSE IF n.val >= 0 THEN Returned(SliceLast(text, IF n.val = 0 THEN Len(text) ELSE n.val))
    ELSE Returned(SubSeq(text, 1 - n.val, Len(text)))

\* text[:int(n)] and text[-int(n):] if int(n) > 0 else '', n the outcome of int()
Left(text, n) == IF n.ok THEN Returned(SliceTo(text, n.val)) ELSE ValueError

Right(text, n) ==
    IF ~n.ok THEN ValueError
    ELSE IF n.val > 0 THEN Returned(SliceLast(text, n.val))
    ELSE Returned(<<>>)

\* FUNCTIONS[name](args) on evaluated (string) arguments
FUNCTIONS(name, args) ==
    IF name = <<"U", "P", "P", "E", "R">> THEN Returned(StrUpper(args[1]))
    ELSE IF name = <<"L", "O", "W", "E", "R">> THEN Returned(StrLower(args[1]))
    ELSE IF name = <<"T", "I", "T", "L", "E">> THEN Returned(StrTitle(args[1]))
    ELSE IF name = <<"T", "R", "I", "M">> THEN Returned(StrStrip(args[1]))
    ELSE IF name = <<"R", "E", "P", "L", "A", "C", "E">> THEN Returned(StrReplace(args[1], args[2], args[3]))
    ELSE IF name = <<"C", "O", "N", "C", "A", "T">> THEN Returned(StrJoin(args))
    ELSE IF name = <<"L", "E", "F", "T">> THEN Left(args[1], PyInt(args[2]))
    ELSE IF name = <<"R", "I", "G", "H", "T">> THEN Right(args[1], PyInt(args[2]))
    ELSE [kind |-> "KeyError", value |-> <<>>, msg |-> NoMessage]

\* row.get(name, '')
RowGet(r, name) == IF name \in DOMAIN r THEN r[name] ELSE <<>>

RECURSIVE evaluate_ast(_, _)
RECURSIVE EvaluateArgs(_, _, _)

\* [evaluate_ast(a, row) for a in node.args]: the first exception ends the
\* comprehension; value holds the list of evaluated arguments
EvaluateArgs(args, r, done) ==
    LET Collect(one) ==
            IF one.kind # "ok" THEN one
            ELSE EvaluateArgs(args, r, Append(done, one.value))
    IN  IF Len(done) = Len(args) THEN Returned(done)
        ELSE Collect(evaluate_ast(args[Len(done) + 1], r))

evaluate_ast(node, r) ==
    LET counts == FUNC_ARG_COUNTS(node.name)
        Join(left, right) ==
            IF right.kind # "ok" THEN right ELSE Returned(left.value \o right.value)
        Concat(left) ==
            IF left.kind # "ok" THEN left ELSE Join(left, evaluate_ast(node.right, r))
        Apply(evaluated_args) ==
            IF evaluated_args.kind # "ok" THEN evaluated_args
            ELSE FUNCTIONS(node.name, evaluated_args.value)
    IN  IF node.type = "StringLiteral" THEN Returned(node.value)
        ELSE IF node.type = "NumberLiteral" THEN Returned(IntToStr(node.value))
        ELSE IF node.type = "ColumnRef" THEN Returned(RowGet(r, node.name))
        ELSE IF node.type = "ConcatOp" THEN Concat(evaluate_ast(node.left, r))
        ELSE IF node.type = "FuncCall"
        THEN IF Len(node.args) < counts.min
             THEN FormulaError(Message("requires at least", node.name, "", <<>>,
                                       counts.min, Len(node.args), -1))
             ELSE IF counts.max # -1 /\ Len(node.args) > counts.max
             THEN FormulaError(Message("accepts at most", node.name, "", <<>>,
                                       counts.max, Len(node.args), -1))
             ELSE Apply(EvaluateArgs(node.args, r, <<>>))
        ELSE FormulaError(Message("Unknown AST node type", <<>>, node.type, <<>>, 0, 0, -1))

evaluate_formula(f, r) ==
    LET Evaluate(ast) == IF ast.err THEN FormulaError(ast.msg) ELSE evaluate_ast(ast.node, r)
        Parse(tokens) ==
            IF tokens.err THEN FormulaError(tokens.msg)
            ELSE IF tokens.tokens = <<>> THEN Returned(<<>>)
            ELSE Evaluate(parse(tokens.tokens))
        Tokenize(stripped) ==
            IF stripped = <<>> THEN Returned(<<>>) ELSE Parse(tokenize(stripped))
    IN  Tokenize(StrStrip(f))

\* validate_formula: isNone = TRUE for a None return, else msg is str(e)
validate_formula(f) ==
    LET Check(ast) ==
            IF ast.err THEN [isNone |-> FALSE, msg |-> ast.msg]
            ELSE [isNone |-> TRUE, msg |-> NoMessage]
        Parse(tokens) ==
            IF tokens.err THEN [isNone |-> FALSE, msg |-> tokens.msg]
            ELSE IF tokens.tokens = <<>> THEN [isNone |-> TRUE, msg |-> NoMessage]
            ELSE Check(parse(tokens.tokens))
        Tokenize(stripped) ==
            IF stripped = <<>> THEN [isNone |-> TRUE, msg |-> NoMessage]
            ELSE Parse(tokenize(stripped))
    IN  Tokenize(StrStrip(f))

---------------------------------------------------------------------------
(* views.py: constants of the manifest pipeline *)

\* A Python dict is a function from its keys; d.get(k) is None when k is absent.
Has(d, k) == k \in DOMAIN d

EmptyDict == [k \in {} |-> <<>>]

MANIFEST_TARGET_FIELDS ==
    <<"quantity", "description", "title", "brand", "model", "category",
      "condition", "retail_value", "upc", "vendor_item_number", "notes">>

TargetFields == {MANIFEST_TARGET_FIELDS[i] : i \in 1..Len(MANIFEST_TARGET_FIELDS)}

\* MANIFEST_SOURCE_ALIASES.get(target, [])
MANIFEST_SOURCE_ALIASES(target) ==
    CASE target = "quantity" -> <<<<"q", "u", "a", "n", "t", "i", "t", "y">>, <<"q", "t", "y">>, <<"u", "n", "i", "t", "s">>, <<"c", "o", "u", "n", "t">>, <<"q", "n", "t", "y">>>>
      [] target = "description" ->
            <<<<"d", "e", "s", "c", "r", "i", "p", "t", "i", "o", "n">>, <<"i", "t", "e", "m", " ", "d", "e", "s", "c", "r", "i", "p", "t", "i", "o", "n">>, <<"t", "i", "t", "l", "e">>, <<"p", "r", "o", "d", "u", "c", "t">>, <<"i", "t", "e", "m">>>>
      [] target = "brand" -> <<<<"b", "r", "a", "n", "d">>, <<"m", "a", "n", "u", "f", "a", "c", "t", "u", "r", "e", "r">>>>
      [] target = "model" -> <<<<"m", "o", "d", "e", "l">>, <<"m", "o", "d", "e", "l", "_", "n", "u", "m", "b", "e", "r">>, <<"m", "o", "d", "e", "l", " ", "n", "u", "m", "b", "e", "r">>>>
      [] target = "category" -> <<<<"c", "a", "t", "e", "g", "o", "r", "y">>, <<"d", "e", "p", "a", "r", "t", "m", "e", "n", "t">>>>
      [] target = "retail_value" ->
            <<<<"r", "e", "t", "a", "i", "l", "_", "v", "a", "l", "u", "e">>, <<"r", "e", "t", "a", "i", "l", " ", "v", "a", "l", "u", "e">>, <<"u", "n", "i", "t", "_", "c", "o", "s", "t">>, <<"u", "n", "i", "t", " ", "c", "o", "s", "t">>, <<"c", "o", "s", "t">>, <<"p", "r", "i", "c", "e">>>>
      [] target = "upc" -> <<<<"u", "p", "c">>, <<"u", "p", "c", "/", "e", "a", "n">>, <<"b", "a", "r", "c", "o", "d", "e">>>>
      [] target = "vendor_item_number" ->
            <<<<"v", "e", "n", "d", "o", "r", "_", "i", "t", "e", "m", "_", "n", "u", "m", "b", "e", "r">>, <<"v", "e", "n", "d", "o", "r", " ", "i", "t", "e", "m", " ", "n", "u", "m", "b", "e", "r">>, <<"i", "t", "e", "m", " ", "#">>, <<"i", "t", "e", "m", " ", "n", "u", "m", "b", "e", "r">>,
              <<"t", "c", "i", "n">>, <<"w", "a", "l", "m", "a", "r", "t", " ", "i", "t", "e", "m", " ", "i", "d">>, <<"s", "k", "u">>>>
      [] target = "notes" -> <<<<"n", "o", "t", "e", "s">>, <<"c", "o", "m", "m", "e", "n", "t">>>>
      [] OTHER -> <<>>

\* header_signature without lower(): the variant C15 must tell from
\* header_signature
header_signature_CaseSensitive(headers) ==
    JoinWith([i \in 1..Len(headers) |-> StrStrip(headers[i])], <<",">>)

\* header_signature over the headers whatever their order (the digest of the
\* sorted list, modelled by the set of its members): the variant C16 must tell
\* from header_signature
header_signature_Unordered(headers) ==
    {StrLower(StrStrip(headers[i])) : i \in 1..Len(headers)}

\* header_signature: the MD5 digest is modelled by its preimage, the joined
\* text (two signatures are equal exactly when the joined texts are equal)
header_signature(headers) ==
    JoinWith([i \in 1..Len(headers) |-> StrLower(StrStrip(headers[i]))], <<",">>)

---------------------------------------------------------------------------
(* views.py: parse_manifest_file, from the cells csv.reader yields *)

\* raw[header] = row[idx].strip() if idx < len(row) else ''; a header that
\* occurs twice keeps the later cell
RawOf(headers, cells) ==
    [h \in {headers[i] : i \in 1..Len(headers)} |->
        LET idx == CHOOSE i \in 1..Len(headers) :
                       headers[i] = h /\ \A j \in 1..Len(headers) : headers[j] = h => j <= i
        IN  IF idx <= Len(cells) THEN StrStrip(cells[idx]) ELSE <<>>]

BlankLine(cells) == \A i \in 1..Len(cells) : StrStrip(cells[i]) = <<>>

\* the loop over enumerate(reader, start=1)
RECURSIVE ParseLines(_, _, _)
ParseLines(headers, lines, i) ==
    IF i > Len(lines) THEN <<>>
    ELSE IF BlankLine(lines[i]) THEN ParseLines(headers, lines, i + 1)
    ELSE <<[row_number |-> i, raw |-> RawOf(headers, lines[i])]>>
             \o ParseLines(headers, lines, i + 1)

\* order.manifest is <<>> when no file was uploaded, else <<file>>
parse_manifest_file(order) ==
    IF order.manifest = <<>> THEN [headers |-> <<>>, rows |-> <<>>]
    ELSE [headers |-> order.manifest[1].headers,
          rows |-> ParseLines(order.manifest[1].headers, order.manifest[1].lines, 1)]

---------------------------------------------------------------------------
(* views.py: default_column_mappings and normalize_standard_mappings *)

\* next((header for header, lowered in normalized_headers if lowered == alias), None)
HeaderMatching(normalized_headers, alias) ==
    LET idx == {i \in 1..Len(normalized_headers) : normalized_headers[i].lowered = alias}
    IN  IF idx = {} THEN <<>>
        ELSE normalized_headers[CHOOSE i \in idx : \A j \in idx : i <= j].header

\* the loop over the aliases of one target, from alias k on
RECURSIVE AliasSource(_, _, _)
AliasSource(normalized_headers, aliases, k) ==
    LET Bind(match) ==
            IF match # <<>> THEN match ELSE AliasSource(normalized_headers, aliases, k + 1)
    IN  IF k > Len(aliases) THEN <<>>
        ELSE Bind(HeaderMatching(normalized_headers, aliases[k]))

default_column_mappings(headers) ==
    LET Mappings(normalized_headers) ==
            [i \in 1..Len(MANIFEST_TARGET_FIELDS) |->
                [target |-> MANIFEST_TARGET_FIELDS[i],
                 source |-> AliasSource(normalized_headers,
                                        MANIFEST_SOURCE_ALIASES(MANIFEST_TARGET_FIELDS[i]), 1),
                 transforms |-> <<>>]]
    IN  Mappings([i \in 1..Len(headers) |->
                     [header |-> headers[i], lowered |-> StrLower(StrStrip(headers[i]))]])

\* a payload entry that is not a JSON object is the record [scalar |-> TRUE]
IsDict(m) == ~Has(m, "scalar")

\* d.get(k) is a non-empty str (keys holding text)
Truthy(d, k) == Has(d, k) /\ d[k] # <<>>

\* d.get(k) is a non-empty name (keys holding a field or transform name)
TruthyName(d, k) == Has(d, k) /\ d[k] # ""

\* one entry of raw_transforms: the transform_data appended, if any.  A
\* transform given as a str t is the record [str |-> t].
NormalizeTransform(transform) ==
    IF Has(transform, "str") THEN <<[type |-> transform.str]>>
    ELSE IF ~IsDict(transform) THEN <<>>
    ELSE LET transform_type ==
                 IF TruthyName(transform, "type") THEN transform.type
                 ELSE IF TruthyName(transform, "id") THEN transform.id
                 ELSE ""
         IN  IF transform_type = "" THEN <<>>
             ELSE IF transform_type = "replace"
             THEN <<[type |-> transform_type,
                     from |-> IF Has(transform, "from") THEN transform.from
                              ELSE IF Has(transform, "value_from") THEN transform.value_from
                              ELSE <<>>,
                     to |-> IF Has(transform, "to") THEN transform.to
                            ELSE IF Has(transform, "value_to") THEN transform.value_to
                            ELSE <<>>]>>
             ELSE <<[type |-> transform_type]>>

RECURSIVE NormalizeTransforms(_)
NormalizeTransforms(raw_transforms) ==
    IF raw_transforms = <<>> THEN <<>>
    ELSE NormalizeTransform(Head(raw_transforms)) \o NormalizeTransforms(Tail(raw_transforms))

\* the body of the loop of normalize_standard_mappings: what one payload entry
\* appends to normalized
NormalizeMapping(mapping) ==
    LET target ==
            IF TruthyName(mapping, "target") THEN mapping.target
            ELSE IF TruthyName(mapping, "standard_column") THEN mapping.standard_column
            ELSE IF TruthyName(mapping, "standardColumn") THEN mapping.standardColumn
            ELSE ""
        formula == IF Truthy(mapping, "formula") THEN StrStrip(mapping.formula) ELSE <<>>
        source ==
            IF Truthy(mapping, "source") THEN mapping.source
            ELSE IF Truthy(mapping, "source_header") THEN mapping.source_header
            ELSE IF Truthy(mapping, "sourceHeader") THEN mapping.sourceHeader
            ELSE <<>>
        raw_transforms ==
            IF Has(mapping, "transforms") THEN mapping.transforms
            ELSE IF Has(mapping, "functions") THEN mapping.functions
            ELSE IF TruthyName(mapping, "transform") THEN <<[type |-> mapping.transform]>>
            ELSE <<>>
    IN  IF ~IsDict(mapping) THEN <<>>
        ELSE IF target \notin TargetFields THEN <<>>
        ELSE IF formula # <<>> THEN <<[target |-> target, formula |-> formula]>>
        ELSE <<[target |-> target, source |-> source,
                transforms |-> NormalizeTransforms(raw_transforms)]>>

RECURSIVE normalize_standard_mappings(_)
normalize_standard_mappings(mappings) ==
    IF mappings = <<>> THEN <<>>
    ELSE NormalizeMapping(Head(mappings)) \o normalize_standard_mappings(Tail(mappings))

---------------------------------------------------------------------------
(* views.py: transforms, casts and normalize_row *)

KeptBySpecialChars(c) == IsCased(c) \/ IsDigit(c) \/ IsSpace(c) \/ c \in {"-", "_", ".", "/"}

apply_transform(text, transform) ==
    LET transform_type ==
            IF Has(transform, "str") THEN transform.str
            ELSE IF Has(transform, "type") THEN transform.type
            ELSE ""
    IN  IF DOMAIN transform = {} \/ (Has(transform, "str") /\ transform.str = "") THEN text
        ELSE IF transform_type = "trim" THEN StrStrip(text)
        ELSE IF transform_type = "title_case" THEN StrTitle(text)
        ELSE IF transform_type = "upper" THEN StrUpper(text)
        ELSE IF transform_type = "lower" THEN StrLower(text)
        ELSE IF transform_type = "remove_special_chars" THEN SelectSeq(text, KeptBySpecialChars)
        ELSE IF transform_type = "replace"
        THEN StrReplace(text,
                        IF Has(transform, "from") THEN transform.from ELSE <<>>,
                        IF Has(transform, "to") THEN transform.to ELSE <<>>)
        ELSE text

RECURSIVE apply_transforms(_, _)
apply_transforms(value, transforms) ==
    IF transforms = <<>> THEN value
    ELSE apply_transforms(apply_transform(value, Head(transforms)), Tail(transforms))

KeptByParseInt(c) == IsDigit(c) \/ c = "-"

\* parse_int without its test out > 0: the variant C10 must tell from parse_int
parse_int_AnySign(value, default) ==
    LET Unchecked(parsed) == IF parsed.ok THEN parsed.val ELSE default
        Parse(cleaned) == IF cleaned = <<>> THEN default ELSE Unchecked(PyInt(cleaned))
    IN  Parse(SelectSeq(value, KeptByParseInt))

\* parse_int on a str value
parse_int(value, default) ==
    LET Positive(parsed) ==
            IF ~parsed.ok THEN default
            ELSE IF parsed.val > 0 THEN parsed.val
            ELSE default
        Parse(cleaned) == IF cleaned = <<>> THEN default ELSE Positive(PyInt(cleaned))
    IN  Parse(SelectSeq(value, KeptByParseInt))

KeptByParseDecimal(c) == IsDigit(c) \/ c \in {".", "-"}

\* Decimal(cleaned) accepts, of the texts over digits, '.' and '-': an optional
\* leading '-', then digits with at most one '.', at least one digit
DecimalValid(cleaned) ==
    LET body == IF cleaned # <<>> /\ cleaned[1] = "-" THEN Tail(cleaned) ELSE cleaned
    IN  /\ \A i \in 1..Len(body) : body[i] # "-"
        /\ Cardinality({i \in 1..Len(body) : body[i] = "."}) <= 1
        /\ \E i \in 1..Len(body) : IsDigit(body[i])

\* parse_decimal on a str value: None, or the Decimal written as the cleaned text
parse_decimal(value) ==
    LET Parse(cleaned) ==
            IF cleaned = <<>> THEN [isNone |-> TRUE, text |-> <<>>]
            ELSE IF ~DecimalValid(cleaned) THEN [isNone |-> TRUE, text |-> <<>>]
            ELSE [isNone |-> FALSE, text |-> cleaned]
    IN  Parse(SelectSeq(value, KeptByParseDecimal))

\* mappings_by_target keeping the first mapping of each target: the variant C9
\* must tell from MappingByTarget
MappingByTarget_First(column_mappings, target) ==
    LET idx == {i \in 1..Len(column_mappings) :
                    /\ IsDict(column_mappings[i])
                    /\ Has(column_mappings[i], "target")
                    /\ column_mappings[i].target = target}
    IN  IF idx = {} THEN EmptyDict
        ELSE column_mappings[CHOOSE i \in idx : \A j \in idx : i <= j]

\* mappings_by_target.get(target, {}): the dict comprehension keeps the last
\* mapping of each target
MappingByTarget(column_mappings, target) ==
    LET idx == {i \in 1..Len(column_mappings) :
                    /\ IsDict(column_mappings[i])
                    /\ Has(column_mappings[i], "target")
                    /\ column_mappings[i].target = target}
    IN  IF idx = {} THEN EmptyDict
        ELSE column_mappings[CHOOSE i \in idx : \A j \in idx : j <= i]

\* the body of the loop over MANIFEST_TARGET_FIELDS: mapped[target], or the
\* exception that leaves normalize_row
MappedValue(raw, mapping) ==
    LET source == IF Has(mapping, "source") THEN mapping.source ELSE <<>>
        raw_value == IF source # <<>> THEN RowGet(raw, source) ELSE <<>>
        transforms ==
            IF Has(mapping, "transforms") THEN mapping.transforms
            ELSE IF TruthyName(mapping, "transform") THEN <<[type |-> mapping.transform]>>
            ELSE <<>>
        Caught(evaluated) ==
            IF evaluated.kind = "FormulaError" THEN Returned(<<>>) ELSE evaluated
        Value(formula) ==
            IF formula # <<>> THEN Caught(evaluate_formula(formula, raw))
            ELSE Returned(apply_transforms(raw_value, transforms))
    IN  Value(IF Has(mapping, "formula") THEN StrStrip(mapping.formula) ELSE <<>>)

Mapped(raw, column_mappings, target) ==
    MappedValue(raw, MappingByTarget(column_mappings, target))

\* normalize_row: [kind |-> "ok", row |-> the dict returned], or the exception
\* raised out of it (by the first target, in MANIFEST_TARGET_FIELDS order, whose
\* mapping raises)
normalize_row(raw, row_number, column_mappings) ==
    LET Failed(mapped) ==
            {i \in 1..Len(MANIFEST_TARGET_FIELDS) : mapped[MANIFEST_TARGET_FIELDS[i]].kind # "ok"}
        First(failed) == MANIFEST_TARGET_FIELDS[CHOOSE i \in failed : \A j \in failed : i <= j]
        Row(mapped) ==
            IF Failed(mapped) # {}
            THEN [kind |-> mapped[First(Failed(mapped))].kind, row |-> EmptyDict]
            ELSE [kind |-> "ok",
                  row |-> [row_number |-> row_number,
                           quantity |-> parse_int(mapped["quantity"].value, 1),
                           description |-> StrStrip(mapped["description"].value),
                           title |-> StrStrip(mapped["title"].value),
                           brand |-> StrStrip(mapped["brand"].value),
                           model |-> StrStrip(mapped["model"].value),
                           category |-> StrStrip(mapped["category"].value),
                           condition |-> StrStrip(mapped["condition"].value),
                           retail_value |-> parse_decimal(mapped["retail_value"].value),
                           upc |-> StrStrip(mapped["upc"].value),
                           vendor_item_number |-> StrStrip(mapped["vendor_item_number"].value),
                           notes |-> StrStrip(mapped["notes"].value)]]
    IN  Row([target \in TargetFields |-> Mapped(raw, column_mappings, target)])

---------------------------------------------------------------------------
(* views.py: row_matches_search and normalized_row_matches_search *)

\* needle in text
Contains(text, needle) ==
    \E i \in 0..(Len(text) - Len(needle)) : SubSeq(text, i + 1, i + Len(needle)) = needle

\* str(d) of the Decimal read from a numeral: the digits without leading
\* zeros, in plain notation while the adjusted exponent is at least -6
DecimalStr(numeral) ==
    LET Sci(coefficient, adjusted) ==
            <<Head(coefficient)>>
                \o (IF Len(coefficient) > 1 THEN <<".">> \o Tail(coefficient) ELSE <<>>)
                \o <<"E">> \o IntToStr(adjusted)
        Plain(coefficient, decimals) ==
            IF decimals = 0 THEN coefficient
            ELSE IF Len(coefficient) > decimals
            THEN SubSeq(coefficient, 1, Len(coefficient) - decimals) \o <<".">>
                     \o SubSeq(coefficient, Len(coefficient) - decimals + 1, Len(coefficient))
            ELSE <<"0", ".">> \o [i \in 1..(decimals - Len(coefficient)) |-> "0"] \o coefficient
        Str(coefficient, decimals) ==
            IF Len(coefficient) - 1 - decimals < -6
            THEN Sci(coefficient, Len(coefficient) - 1 - decimals)
            ELSE Plain(coefficient, decimals)
        Unsigned(body, digits) ==
            Str(NatToStr(DigitsValue(digits, 0)),
                IF \E i \in 1..Len(body) : body[i] = "."
                THEN Len(body) - (CHOOSE i \in 1..Len(body) : body[i] = ".")
                ELSE 0)
        Signed(negative, body) ==
            (IF negative THEN <<"-">> ELSE <<>>) \o Unsigned(body, SelectSeq(body, IsDigit))
    IN  IF numeral # <<>> /\ numeral[1] = "-" THEN Signed(TRUE, Tail(numeral))
        ELSE Signed(FALSE, numeral)

\* bool(d) of the Decimal read from a numeral
DecimalTruthy(numeral) == \E i \in 1..Len(numeral) : IsDigit(numeral[i]) /\ numeral[i] # "0"

\* str(value or '') for the value a normalized row holds under key
FieldText(row, key) ==
    IF key = "row_number" \/ key = "quantity"
    THEN (IF row[key] = 0 THEN <<>> ELSE IntToStr(row[key]))
    ELSE IF key = "retail_value"
    THEN (IF row[key].isNone \/ ~DecimalTruthy(row[key].text) THEN <<>>
          ELSE DecimalStr(row[key].text))
    ELSE row[key]

\* search_term is <<>> for None, else <<the text>>
row_matches_search(raw_dict, search_term) ==
    LET Match(needle) ==
            IF needle = <<>> THEN TRUE
            ELSE \E key \in DOMAIN raw_dict : Contains(StrLower(raw_dict[key]), needle)
    IN  IF search_term = <<>> \/ search_term[1] = <<>> THEN TRUE
        ELSE Match(StrLower(StrStrip(search_term[1])))

normalized_row_matches_search(row, search_term) ==
    LET Match(needle) ==
            IF needle = <<>> THEN TRUE
            ELSE \E key \in DOMAIN row \ {"row_number"} :
                     Contains(StrLower(FieldText(row, key)), needle)
    IN  IF search_term = <<>> \/ search_term[1] = <<>> THEN TRUE
        ELSE Match(StrLower(StrStrip(search_term[1])))

---------------------------------------------------------------------------
(* views.py: resolve_manifest_mappings and build_normalized_manifest_rows *)

\* the lookup by id without the vendor filter: the variant C7 must tell from
\* TemplateById
TemplateById_AnyVendor(table, vendor, template_id) ==
    LET idx == {i \in 1..Len(table) : table[i].id = template_id}
    IN  IF idx = {} THEN <<>> ELSE <<table[CHOOSE i \in idx : TRUE]>>

\* CSVTemplate.objects.filter(id=template_id, vendor=order.vendor).first()
TemplateById(table, vendor, template_id) ==
    LET idx == {i \in 1..Len(table) : table[i].id = template_id /\ table[i].vendor = vendor}
    IN  IF idx = {} THEN <<>> ELSE <<table[CHOOSE i \in idx : TRUE]>>

\* row a comes before row b under order_by('-is_default', '-id')
OrderedBefore(a, b) ==
    \/ a.is_default /\ ~b.is_default
    \/ a.is_default = b.is_default /\ a.id > b.id

\* CSVTemplate.objects.filter(vendor=order.vendor, header_signature=sig)
\*     .order_by('-is_default', '-id').first()
TemplateBySignature(table, vendor, sig) ==
    LET idx == {i \in 1..Len(table) :
                    table[i].vendor = vendor /\ table[i].header_signature = sig}
    IN  IF idx = {} THEN <<>>
        ELSE <<table[CHOOSE i \in idx :
                        \A j \in idx : j # i => OrderedBefore(table[i], table[j])]>>

\* the candidate template: used_template after the two lookups; template_id is
\* <<>> for None
UsedTemplate(table, order, headers, template_id) ==
    LET by_id == IF template_id # <<>> /\ template_id[1] # 0
                 THEN TemplateById(table, order.vendor, template_id[1])
                 ELSE <<>>
    IN  IF by_id # <<>> THEN by_id
        ELSE TemplateBySignature(table, order.vendor, header_signature(headers))

\* resolve_manifest_mappings trying the template's saved mappings before the
\* explicit payload: the variant C6 must tell from resolve_manifest_mappings
resolve_manifest_mappings_SavedFirst(table, order, headers, template_id, mappings_payload) ==
    LET Saved(used_template) ==
            IF used_template # <<>> /\ used_template[1].column_mappings # <<>>
            THEN normalize_standard_mappings(used_template[1].column_mappings)
            ELSE <<>>
        Fallback(explicit) == IF explicit # <<>> THEN explicit ELSE default_column_mappings(headers)
        Resolve(used_template, saved) ==
            [sig |-> header_signature(headers),
             used_template |-> used_template,
             mappings |-> IF saved # <<>> THEN saved
                          ELSE Fallback(normalize_standard_mappings(mappings_payload))]
        Lookup(used_template) == Resolve(used_template, Saved(used_template))
    IN  Lookup(UsedTemplate(table, order, headers, template_id))

resolve_manifest_mappings(table, order, headers, template_id, mappings_payload) ==
    LET Saved(used_template) ==
            IF used_template # <<>> /\ used_template[1].column_mappings # <<>>
            THEN normalize_standard_mappings(used_template[1].column_mappings)
            ELSE <<>>
        Fallback(saved) == IF saved # <<>> THEN saved ELSE default_column_mappings(headers)
        Resolve(used_template, explicit) ==
            [sig |-> header_signature(headers),
             used_template |-> used_template,
             mappings |-> IF explicit # <<>> THEN explicit ELSE Fallback(Saved(used_template))]
    IN  Resolve(UsedTemplate(table, order, headers, template_id),
                normalize_standard_mappings(mappings_payload))

\* parse_id_list: raw_values is <<>> for None, else <<the list>>; a value is the
\* text of the JSON number or string the caller sent
RECURSIVE ParseIds(_)
ParseIds(values) ==
    LET Kept(parsed) == IF parsed.ok THEN <<parsed.val>> ELSE <<>>
    IN  IF values = <<>> THEN <<>>
        ELSE Kept(PyInt(Head(values))) \o ParseIds(Tail(values))

parse_id_list(raw_values) == IF raw_values = <<>> THEN <<>> ELSE ParseIds(raw_values[1])

\* filtered_rows
FilteredRows(raw_rows, selected_row_numbers) ==
    LET Filter(ids) ==
            IF ids # <<>>
            THEN SelectSeq(raw_rows, LAMBDA r : \E i \in 1..Len(ids) : ids[i] = r.row_number)
            ELSE raw_rows
    IN  Filter(parse_id_list(selected_row_numbers))

BuildResult(kind, error, headers, resolved, row_count_in_file, rows_selected, normalized_rows) ==
    [kind |-> kind, error |-> error, headers |-> headers,
     header_signature |-> resolved.sig, used_template |-> resolved.used_template,
     mappings |-> resolved.mappings, row_count_in_file |-> row_count_in_file,
     rows_selected |-> rows_selected, normalized_rows |-> normalized_rows]

NothingResolved == [sig |-> <<>>, used_template |-> <<>>, mappings |-> <<>>]

\* build_normalized_manifest_rows: kind "ok" with the dict returned, kind
\* "error" with the {'error': ...} dict, or the kind of the exception raised
build_normalized_manifest_rows(table, order, selected_row_numbers, template_id, mappings_payload) ==
    LET Failed(rows) == {i \in 1..Len(rows) : rows[i].kind # "ok"}
        First(failed) == CHOOSE i \in failed : \A j \in failed : i <= j
        Result(parsed, resolved, filtered_rows, rows) ==
            IF Failed(rows) # {}
            THEN BuildResult(rows[First(Failed(rows))].kind, "", <<>>, NothingResolved, 0, 0, <<>>)
            ELSE BuildResult("ok", "", parsed.headers, resolved, Len(parsed.rows),
                             Len(filtered_rows), [i \in 1..Len(rows) |-> rows[i].row])
        Normalize(parsed, resolved, filtered_rows) ==
            Result(parsed, resolved, filtered_rows,
                   [i \in 1..Len(filtered_rows) |->
                       normalize_row(filtered_rows[i].raw, filtered_rows[i].row_number,
                                     resolved.mappings)])
        Build(parsed) ==
            IF parsed.headers = <<>>
            THEN BuildResult("error", "No manifest file uploaded for this order.", <<>>,
                             NothingResolved, 0, 0, <<>>)
            ELSE IF parsed.rows = <<>>
            THEN BuildResult("error", "Manifest has no usable rows.", <<>>,
                             NothingResolved, 0, 0, <<>>)
            ELSE Normalize(parsed,
                           resolve_manifest_mappings(table, order, parsed.headers, template_id,
                                                     mappings_payload),
                           FilteredRows(parsed.rows, selected_row_numbers))
    IN  Build(parse_manifest_file(order))

---------------------------------------------------------------------------
(* views.py: PurchaseOrderViewSet.preview_standardize and process_manifest *)

\* request.data.get('standard_mappings') or request.data.get('column_mappings') or []
MappingPayload(data) ==
    IF data.standard_mappings # <<>> THEN data.standard_mappings ELSE data.column_mappings

\* seq[:n]
Take(seq, n) == SubSeq(seq, 1, IF n < Len(seq) THEN n ELSE Len(seq))

\* the Response of a request: kind "ok" with the body, kind "error" with the
\* detail of the 400 response, or the kind of the exception raised
HandlerResponse(kind, detail, body) == [kind |-> kind, detail |-> detail, body |-> body]

\* preview_standardize on the stored order; data holds the request body, with
\* <<>> for an absent key
preview_standardize(table, order, data) ==
    LET search_term == IF data.search_term = <<>> THEN <<>> ELSE StrStrip(data.search_term[1])
        limit == IF data.preview_limit = <<>> THEN 50 ELSE parse_int(data.preview_limit[1], 50)
        preview_limit == IF limit > 250 THEN 250 ELSE IF limit < 1 THEN 1 ELSE limit
        Respond(normalized_rows, row_count_in_file, mappings_used, header_sig, used_template) ==
            IF normalized_rows = <<>>
            THEN HandlerResponse("error", "No rows selected for preview.", EmptyDict)
            ELSE HandlerResponse("ok", "",
                     [row_count_in_file |-> row_count_in_file,
                      rows_selected |-> Len(normalized_rows),
                      preview_count |-> Len(Take(normalized_rows, preview_limit)),
                      normalized_preview |-> Take(normalized_rows, preview_limit),
                      mappings_used |-> mappings_used,
                      search_term |-> search_term,
                      header_signature |-> header_sig,
                      template_id |-> IF used_template = <<>> THEN <<>>
                                      ELSE <<used_template[1].id>>])
        Search(normalized_rows, row_count_in_file, mappings_used, header_sig, used_template) ==
            Respond(IF search_term # <<>>
                    THEN SelectSeq(normalized_rows,
                                   LAMBDA row : normalized_row_matches_search(row, <<search_term>>))
                    ELSE normalized_rows,
                    row_count_in_file, mappings_used, header_sig, used_template)
        Prepare(prepared) ==
            IF prepared.kind = "error" THEN HandlerResponse("error", prepared.error, EmptyDict)
            ELSE IF prepared.kind # "ok" THEN HandlerResponse(prepared.kind, "", EmptyDict)
            ELSE Search(prepared.normalized_rows, prepared.row_count_in_file, prepared.mappings,
                        prepared.header_signature, prepared.used_template)
    IN  IF data.rows # <<>>
        THEN Search(data.rows, Len(data.rows),
                    normalize_standard_mappings(MappingPayload(data)), <<>>, <<>>)
        ELSE Prepare(build_normalized_manifest_rows(table, order, data.selected_row_numbers,
                                                    data.template_id, MappingPayload(data)))

\* row_data.get(key, default)
RowField(row_data, key, default) == IF Has(row_data, key) THEN row_data[key] ELSE default

\* the ManifestRow created from one normalized row
ManifestRowOf(order, row_data) ==
    LET None == [isNone |-> TRUE, text |-> <<>>]
        Price(key) == IF Has(row_data, key) THEN parse_decimal(row_data[key]) ELSE None
        requested == IF Has(row_data, "pricing_stage") /\ row_data.pricing_stage # ""
                     THEN row_data.pricing_stage ELSE "unpriced"
        known == IF requested \in {"unpriced", "draft", "final"} THEN requested ELSE "unpriced"
        Stage(proposed_price, final_price) ==
            IF ~final_price.isNone THEN "final"
            ELSE IF ~proposed_price.isNone /\ known = "unpriced" THEN "draft"
            ELSE known
    IN  [purchase_order |-> order.id,
         row_number |-> RowField(row_data, "row_number", 0),
         quantity |-> RowField(row_data, "quantity", 1),
         description |-> RowField(row_data, "description", <<>>),
         title |-> RowField(row_data, "title", <<>>),
         brand |-> RowField(row_data, "brand", <<>>),
         model |-> RowField(row_data, "model", <<>>),
         category |-> RowField(row_data, "category", <<>>),
         condition |-> RowField(row_data, "condition", <<>>),
         retail_value |-> RowField(row_data, "retail_value", None),
         proposed_price |-> Price("proposed_price"),
         final_price |-> Price("final_price"),
         pricing_stage |-> Stage(Price("proposed_price"), Price("final_price")),
         pricing_notes |-> RowField(row_data, "pricing_notes", <<>>),
         upc |-> RowField(row_data, "upc", <<>>),
         vendor_item_number |-> RowField(row_data, "vendor_item_number", <<>>),
         match_status |-> "pending",
         notes |-> RowField(row_data, "notes", <<>>)]

\* f'{order.vendor.code} Standard Manifest {today}', for the vendor codes V1,
\* V2 and one fixed day
DefaultTemplateName(order) == <<"V">> \o IntToStr(order.vendor) \o <<" ", "S", "t", "a", "n", "d", "a", "r", "d", " ", "M", "a", "n", "i", "f", "e", "s", "t", " ", "2", "0", "2", "6", "-", "0", "1", "-", "0", "1">>

\* what a handler leaves behind: its Response and the three tables
Outcome(out, table, last_id, order, rows) ==
    [out |-> out, templates |-> table, lastTemplateId |-> last_id, order |-> order,
     manifest_rows |-> rows]

\* process_manifest on the stored order; stored is the ManifestRow table
process_manifest(table, last_id, order, stored, data) ==
    LET template_name == IF data.template_name = <<>> THEN <<>> ELSE StrStrip(data.template_name[1])
        Body(created, normalized_mappings, prepared, used_template) ==
            [rows_created |-> Len(created),
             order_status |-> order.status,
             mappings_used |-> normalized_mappings,
             row_count_in_file |-> IF prepared = <<>> THEN <<>>
                                   ELSE <<prepared[1].row_count_in_file>>,
             rows_selected |-> IF prepared = <<>> THEN <<>> ELSE <<prepared[1].rows_selected>>,
             header_signature |-> IF prepared = <<>> THEN <<>> ELSE prepared[1].header_signature,
             template_id |-> IF used_template = <<>> THEN <<>> ELSE <<used_template[1].id>>,
             template_name |-> IF used_template = <<>> THEN <<>> ELSE used_template[1].name]
        Preview(normalized_mappings, used_template) ==
            IF used_template # <<>> /\ order.manifest_preview # <<>>
            THEN [order EXCEPT !.manifest_preview =
                     <<[k \in DOMAIN order.manifest_preview[1]
                              \cup {"template_id", "template_name", "template_mappings"} |->
                          IF k = "template_id" THEN used_template[1].id
                          ELSE IF k = "template_name" THEN used_template[1].name
                          ELSE IF k = "template_mappings" THEN normalized_mappings
                          ELSE order.manifest_preview[1][k]]>>]
            ELSE order
        Write(created, table2, last_id2, normalized_mappings, prepared, used_template) ==
            Outcome(HandlerResponse("ok", "",
                                    Body(created, normalized_mappings, prepared, used_template)),
                    table2, last_id2, Preview(normalized_mappings, used_template),
                    SelectSeq(stored, LAMBDA r : r.purchase_order # order.id) \o created)
        Store(normalized_rows, table2, last_id2, normalized_mappings, prepared, used_template) ==
            IF normalized_rows = <<>>
            THEN Outcome(HandlerResponse("error", "No rows selected for processing.", EmptyDict),
                         table2, last_id2, order, stored)
            ELSE Write([i \in 1..Len(normalized_rows) |-> ManifestRowOf(order, normalized_rows[i])],
                       table2, last_id2, normalized_mappings, prepared, used_template)
        Renamed(used) ==
            [used EXCEPT !.name = IF template_name # <<>> THEN template_name ELSE @]
        Update(prepared, used) ==
            Store(prepared.normalized_rows,
                  [i \in 1..Len(table) |-> IF table[i].id = used.id THEN used ELSE table[i]],
                  last_id, prepared.mappings, <<prepared>>, <<used>>)
        Create(prepared, new) ==
            Store(prepared.normalized_rows, Append(table, new), last_id + 1, prepared.mappings,
                  <<prepared>>, <<new>>)
        Save(prepared) ==
            IF data.save_template /\ prepared.mappings # <<>>
            THEN IF prepared.used_template # <<>>
                 THEN Update(prepared,
                             [Renamed(prepared.used_template[1]) EXCEPT
                                 !.header_signature = prepared.header_signature,
                                 !.column_mappings = prepared.mappings])
                 ELSE Create(prepared,
                             [id |-> last_id + 1, vendor |-> order.vendor,
                              name |-> IF template_name # <<>> THEN template_name
                                       ELSE DefaultTemplateName(order),
                              header_signature |-> prepared.header_signature,
                              column_mappings |-> prepared.mappings,
                              is_default |-> FALSE,
                              created_at |-> last_id + 1])
            ELSE Store(prepared.normalized_rows, table, last_id, prepared.mappings, <<prepared>>,
                       prepared.used_template)
        Prepare(prepared) ==
            IF prepared.kind = "error"
            THEN Outcome(HandlerResponse("error", prepared.error, EmptyDict),
                         table, last_id, order, stored)
            ELSE IF prepared.kind # "ok"
            THEN Outcome(HandlerResponse(prepared.kind, "", EmptyDict),
                         table, last_id, order, stored)
            ELSE Save(prepared)
    IN  IF data.rows # <<>>
        THEN Store(data.rows, table, last_id, normalize_standard_mappings(MappingPayload(data)),
                   <<>>, <<>>)
        ELSE Prepare(build_normalized_manifest_rows(table, order, data.selected_row_numbers,
                                                    data.template_id, MappingPayload(data)))

---------------------------------------------------------------------------
(* Inputs of the manifest pipeline *)

\* all sequences over S of length at most n
SeqsUpTo(S, n) == UNION {[1..k -> S] : k \in 0..n}

HeadersQtyDescCost == <<<<"Q", "t", "y">>, <<"D", "e", "s", "c">>, <<"C", "o", "s", "t">>>>

\* the same columns in other letter case and with surrounding blanks
HeadersQtyDescCostLoose == <<<<" ", "Q", "T", "Y">>, <<"d", "e", "s", "c", " ">>, <<"c", "o", "s", "t">>>>

\* several aliases of one target, an alias that is not the first of its
\* target, blanks around a header
HeadersItems == <<<<"I", "t", "e", "m">>, <<" ", "D", "e", "s", "c", "r", "i", "p", "t", "i", "o", "n", " ">>, <<"U", "n", "i", "t", " ", "C", "o", "s", "t">>, <<"S", "K", "U">>, <<"C", "o", "l", "o", "r">>>>

\* lines of cells: a full line, a short line whose quantity is no number and
\* a blank line (skipped by the parser)
LineInputs ==
    { <<<<"2">>, <<" ", "s", "o", "n", "y", " ", "t", "v", " ">>, <<"$", "1", ",", "2", "9", "9", ".", "9", "9">>>>,
      <<<<"x">>, <<"r", "a", "d", "i", "o">>>>,
      <<<<>>, <<" ">>, <<>>>> }

OrderInputs ==
    {[vendor |-> 1, manifest |-> <<>>]}
        \cup {[vendor |-> 1, manifest |-> <<[headers |-> HeadersQtyDescCost, lines |-> ls]>>] :
                 ls \in SeqsUpTo(LineInputs, MaxLines)}

\* selected_row_numbers: None, or a list of row numbers and of a text that is
\* no number
SelectionValues == {<<"1">>, <<"2">>, <<"x">>}

SelectionInputs == {<<>>} \cup {<<sel>> : sel \in SeqsUpTo(SelectionValues, MaxSelection)}

DescriptionLeftQty == [target |-> "description", formula |-> <<"L", "E", "F", "T", "(", "[", "D", "e", "s", "c", "]", ",", " ", "[", "Q", "t", "y", "]", ")">>]

DescriptionUnclosed == [target |-> "description", formula |-> <<"U", "P", "P", "E", "R", "(", "[", "D", "e", "s", "c", "]">>]

QuantityFromQty == [target |-> "quantity", source |-> <<"Q", "t", "y">>, transforms |-> <<>>]

QuantityFormula == [target |-> "quantity", formula |-> <<"[", "Q", "t", "y", "]", " ", "+", " ", "\"", "-", "\"", " ", "+", " ", "[", "Q", "t", "y", "]">>]

BrandUpperLegacy ==
    [standard_column |-> "brand", source_header |-> <<"D", "e", "s", "c">>, functions |-> <<[str |-> "upper"]>>]

BrandTitle ==
    [target |-> "brand", source |-> <<"D", "e", "s", "c">>,
     transforms |-> <<[type |-> "trim"], [type |-> "title_case"]>>]

NotesReplace ==
    [target |-> "notes", sourceHeader |-> <<"C", "o", "s", "t">>,
     transforms |-> <<[id |-> "replace", value_from |-> <<"$">>, value_to |-> <<"U", "S", "D", " ">>]>>]

UnknownTarget == [target |-> "bogus", source |-> <<"Q", "t", "y">>]

NotAnObject == [scalar |-> TRUE]

\* explicit mapping payloads: none, one whose formula fails on some rows only,
\* one whose formula never parses, duplicate targets in both orders, legacy
\* shapes, entries that do not survive normalization
PayloadInputs ==
    { <<>>,
      <<DescriptionLeftQty, QuantityFromQty>>,
      <<DescriptionUnclosed, QuantityFormula>>,
      <<BrandUpperLegacy, BrandTitle, NotesReplace>>,
      <<BrandTitle, BrandUpperLegacy>>,
      <<UnknownTarget, NotAnObject>> }

\* mapping lists handed to normalize_row directly: a formula together with a
\* source, a blank formula together with a source, the one-transform shorthand,
\* duplicate targets
BrandFormulaAndSource ==
    [target |-> "brand", formula |-> <<"L", "O", "W", "E", "R", "(", "[", "D", "e", "s", "c", "]", ")">>, source |-> <<"Q", "t", "y">>,
     transforms |-> <<[type |-> "upper"]>>]

BrandBlankFormulaAndSource ==
    [target |-> "brand", formula |-> <<" ", " ">>, source |-> <<"D", "e", "s", "c">>, transform |-> "upper"]

BrandFromCost == [target |-> "brand", source |-> <<"C", "o", "s", "t">>, transforms |-> <<>>]

RetailFromCost == [target |-> "retail_value", source |-> <<"C", "o", "s", "t">>, transforms |-> <<>>]

RetailFromDesc == [target |-> "retail_value", source |-> <<"D", "e", "s", "c">>, transforms |-> <<>>]

RetailLeftQty == [target |-> "retail_value", formula |-> <<"L", "E", "F", "T", "(", "[", "C", "o", "s", "t", "]", ",", " ", "[", "Q", "t", "y", "]", ")">>]

MappingListInputs ==
    { <<>>,
      <<RetailFromCost>>,
      <<RetailFromDesc, QuantityFromQty>>,
      <<RetailLeftQty>>,
      <<BrandFormulaAndSource>>,
      <<BrandBlankFormulaAndSource>>,
      <<BrandFromCost, BrandFormulaAndSource>>,
      <<BrandFormulaAndSource, BrandFromCost>>,
      <<BrandTitle, BrandFromCost, QuantityFormula>>,
      <<DescriptionLeftQty, BrandFromCost, NotAnObject>>,
      <<DescriptionUnclosed, QuantityFromQty, BrandTitle>> }

\* the raw rows of the lines above, of a line with a negative quantity and of
\* a line whose description holds two decimal points
RawRowInputs ==
    {RawOf(HeadersQtyDescCost, l) :
        l \in LineInputs \cup {<<<<"-", "3">>, <<"L", "a", "m", "p">>, <<"n", "/", "a">>>>, <<<<"1">>, <<"v", "1", ".", "2", ".", "3">>, <<"-", ".", "5">>>>}}

---------------------------------------------------------------------------
(* The pipeline called on an order's manifest *)

Init ==
    /\ orders = <<>>
    /\ manifest_rows = <<>>
    /\ items = <<>>
    /\ tables = NoTables
    /\ carts = <<>>
    /\ calls = <<>>
    /\ argFormula = <<>>
    /\ argRow = <<>>
    /\ evalResult = NotCalled
    /\ validateResult = NotCalled
    /\ templates = <<>>
    /\ lastTemplateId = 0
    /\ request = [op |-> "none"]
    /\ response = [op |-> "none"]

\* build_normalized_manifest_rows(order, selected_row_numbers, template_id, mappings_payload)
BuildNormalizedManifestRows ==
    /\ response.op = "none"
    /\ \E order \in OrderInputs, selected \in SelectionInputs, payload \in PayloadInputs :
        /\ request' = [op |-> "build", order |-> order, selected_row_numbers |-> selected,
                       template_id |-> <<>>, mappings_payload |-> payload]
        /\ response' = [op |-> "build",
                        out |-> build_normalized_manifest_rows(templates, order, selected,
                                                               <<>>, payload)]
        /\ UNCHANGED <<argFormula, argRow, evalResult, validateResult, templates, lastTemplateId,
                       orders, manifest_rows, storeVars>>

\* normalize_row(raw, row_number, column_mappings)
NormalizeRow ==
    /\ response.op = "none"
    /\ \E raw \in RawRowInputs, row_number \in 1..MaxLines, mappings \in MappingListInputs :
        /\ request' = [op |-> "normalize_row", raw |-> raw, row_number |-> row_number,
                       column_mappings |-> mappings]
        /\ response' = [op |-> "normalize_row", out |-> normalize_row(raw, row_number, mappings)]
        /\ UNCHANGED <<argFormula, argRow, evalResult, validateResult, templates, lastTemplateId,
                       orders, manifest_rows, storeVars>>

\* search terms: None, empty, blank, a word in other letter case with blanks
\* around it, digits, text that runs from the end of one field into the next,
\* text no field holds
SearchTermInputs ==
    { <<>>, <<<<>>>>, <<<<" ", " ">>>>, <<<<" ", "S", "O", "N", "Y", " ">>>>, <<<<"2">>>>, <<<<"2", "s", "o", "n", "y">>>>, <<<<".", "5">>>>, <<<<"z", "z", "z">>>> }

\* the rows normalize_row returns for the raw rows above
NormalizedRowInputs ==
    {normalize_row(raw, row_number, <<QuantityFromQty, BrandTitle, RetailFromCost>>).row :
        raw \in RawRowInputs, row_number \in 1..MaxLines}

\* row_matches_search(raw_dict, search_term)
RowMatchesSearch ==
    /\ response.op = "none"
    /\ \E raw \in RawRowInputs, search_term \in SearchTermInputs :
        /\ request' = [op |-> "row_matches_search", raw_dict |-> raw,
                       search_term |-> search_term]
        /\ response' = [op |-> "row_matches_search",
                        out |-> row_matches_search(raw, search_term)]
        /\ UNCHANGED <<argFormula, argRow, evalResult, validateResult, templates, lastTemplateId,
                       orders, manifest_rows, storeVars>>

\* normalized_row_matches_search(row, search_term)
NormalizedRowMatchesSearch ==
    /\ response.op = "none"
    /\ \E row \in NormalizedRowInputs, search_term \in SearchTermInputs :
        /\ request' = [op |-> "normalized_row_matches_search", row |-> row,
                       search_term |-> search_term]
        /\ response' = [op |-> "normalized_row_matches_search",
                        out |-> normalized_row_matches_search(row, search_term)]
        /\ UNCHANGED <<argFormula, argRow, evalResult, validateResult, templates, lastTemplateId,
                       orders, manifest_rows, storeVars>>

NotesReplaceBoth ==
    [target |-> "notes", source |-> <<"C", "o", "s", "t">>,
     transforms |-> <<[type |-> "replace", from |-> <<"$">>, to |-> <<"U", "S", "D", " ">>]>>]

NotesReplaceFrom ==
    [target |-> "notes", source |-> <<"C", "o", "s", "t">>,
     transforms |-> <<[type |-> "trim"], [type |-> "replace", from |-> <<"$">>]>>]

BrandReplaceByName ==
    [target |-> "brand", source |-> <<"D", "e", "s", "c">>, transforms |-> <<[str |-> "replace"]>>]

BrandFormulaPadded == [target |-> "brand", formula |-> <<" ", "U", "P", "P", "E", "R", "(", "[", "D", "e", "s", "c", "]", ")", " ">>]

\* mapping lists handed to normalize_standard_mappings: the payloads above,
\* the persisted shapes (a formula, a source with transforms, a replace with
\* both texts, a replace with one text, a formula with blanks around it) and a
\* transform given by its name
StandardMappingInputs ==
    PayloadInputs
        \cup { <<DescriptionLeftQty, BrandTitle, NotesReplaceBoth>>,
               <<QuantityFromQty, NotesReplaceFrom>>,
               <<BrandFormulaPadded>>,
               <<BrandReplaceByName, NotesReplaceBoth>> }

\* normalize_standard_mappings(mappings)
NormalizeStandardMappings ==
    /\ response.op = "none"
    /\ \E mappings \in StandardMappingInputs :
        /\ request' = [op |-> "normalize_standard_mappings", mappings |-> mappings]
        /\ response' = [op |-> "normalize_standard_mappings",
                        out |-> normalize_standard_mappings(mappings)]
        /\ UNCHANGED <<argFormula, argRow, evalResult, validateResult, templates, lastTemplateId,
                       orders, manifest_rows, storeVars>>

Next ==
    \/ BuildNormalizedManifestRows
    \/ NormalizeRow
    \/ RowMatchesSearch
    \/ NormalizedRowMatchesSearch
    \/ NormalizeStandardMappings

Spec == Init /\ [][Next]_vars

---------------------------------------------------------------------------
(* normalize_row called again and again on the rows of one manifest *)

\* mapping lists of a batch: transforms, formulas that evaluate, a formula that
\* fails on some rows, a formula that never parses
BatchMappingInputs ==
    { <<BrandTitle, BrandFromCost, QuantityFormula>>,
      <<DescriptionLeftQty, BrandFromCost, NotAnObject>>,
      <<RetailFromDesc, QuantityFromQty>>,
      <<DescriptionUnclosed, QuantityFromQty, BrandTitle>> }

\* the raw rows and the mapping list live in request, as the objects the calls
\* share; response counts the calls made on each row and collects their outcomes
InitNormalize ==
    /\ orders = <<>>
    /\ manifest_rows = <<>>
    /\ items = <<>>
    /\ tables = NoTables
    /\ carts = <<>>
    /\ calls = <<>>
    /\ argFormula = <<>>
    /\ argRow = <<>>
    /\ evalResult = NotCalled
    /\ validateResult = NotCalled
    /\ templates = <<>>
    /\ lastTemplateId = 0
    /\ \E order \in OrderInputs, mappings \in BatchMappingInputs :
        /\ request = [op |-> "normalize_rows", raw_rows |-> parse_manifest_file(order).rows,
                      column_mappings |-> mappings]
        /\ response = [op |-> "normalize_rows",
                       calls |-> [i \in 1..Len(parse_manifest_file(order).rows) |-> 0],
                       outcomes |-> [i \in 1..Len(parse_manifest_file(order).rows) |-> {}]]

\* one call with the row number drawn from the calls made so far: the variant
\* C14 must tell from NormalizeRows
NormalizeRows_Counting ==
    \E i \in 1..Len(request.raw_rows) :
        /\ response.calls[i] < MaxCalls
        /\ response' =
               [response EXCEPT
                   !.calls[i] = @ + 1,
                   !.outcomes[i] =
                       @ \cup {normalize_row(request.raw_rows[i].raw, response.calls[i],
                                             request.column_mappings)}]
        /\ UNCHANGED <<argFormula, argRow, evalResult, validateResult, templates,
                       lastTemplateId, request, orders, manifest_rows, storeVars>>

\* normalize_row(raw=row['raw'], row_number=row['row_number'], column_mappings=mappings)
\* for one row of the batch; it assigns to neither argument
NormalizeRows ==
    \E i \in 1..Len(request.raw_rows) :
        /\ response.calls[i] < MaxCalls
        /\ response' =
               [response EXCEPT
                   !.calls[i] = @ + 1,
                   !.outcomes[i] =
                       @ \cup {normalize_row(request.raw_rows[i].raw,
                                             request.raw_rows[i].row_number,
                                             request.column_mappings)}]
        /\ UNCHANGED <<argFormula, argRow, evalResult, validateResult, templates,
                       lastTemplateId, request, orders, manifest_rows, storeVars>>

NextNormalize == NormalizeRows

SpecNormalize == InitNormalize /\ [][NextNormalize]_vars

---------------------------------------------------------------------------
(* The stored order, its manifest rows and the two standardization requests *)

\* stored orders of vendor 1: without a manifest, with a manifest of two
\* usable lines (with and without an upload preview), with a manifest of one
\* blank line
StoredOrderInputs ==
    LET Order(manifest, manifest_preview) ==
            [id |-> 1, vendor |-> 1, status |-> "ordered", manifest |-> manifest,
             manifest_preview |-> manifest_preview]
        TwoLines == [headers |-> HeadersQtyDescCost,
                     lines |-> << <<<<"2">>, <<" ", "s", "o", "n", "y", " ", "t", "v", " ">>, <<"$", "1", ",", "2", "9", "9", ".", "9", "9">>>>, <<<<"x">>, <<"r", "a", "d", "i", "o">>>> >>]
    IN  { Order(<<>>, <<>>),
          Order(<<TwoLines>>, <<[row_count |-> 2]>>),
          Order(<<TwoLines>>, <<>>),
          Order(<<[headers |-> HeadersQtyDescCost, lines |-> << <<<<>>, <<" ">>>> >>]>>, <<>>) }

\* the template table before the requests: empty, or one template of vendor 1
\* saved for the headers Qty, Desc, Cost
StoredTemplateInputs ==
    { <<>>,
      <<[id |-> 1, vendor |-> 1, name |-> <<"S", "a", "v", "e", "d">>,
         header_signature |-> header_signature(HeadersQtyDescCost),
         column_mappings |-> <<BrandUpperLegacy, NotesReplace>>,
         is_default |-> FALSE, created_at |-> 1]>> }

\* rows sent back by the client: one normalized row, priced
GivenRowInputs ==
    { <<>>,
      <<[row_number |-> 1, quantity |-> 2, description |-> <<>>, title |-> <<>>,
         brand |-> <<"S", "o", "n", "y", " ", "T", "v">>, model |-> <<>>, category |-> <<>>, condition |-> <<>>,
         retail_value |-> [isNone |-> FALSE, text |-> <<"1", "2", "9", "9", ".", "9", "9">>], upc |-> <<>>,
         vendor_item_number |-> <<>>, notes |-> <<>>, final_price |-> <<"$", "9", ".", "9", "9">>]>> }

\* bodies of POST process-manifest
ProcessManifestInputs ==
    {[rows |-> rows, selected_row_numbers |-> selected, template_id |-> <<>>,
      standard_mappings |-> mappings, column_mappings |-> <<>>,
      save_template |-> save[1], template_name |-> save[2]] :
         rows \in GivenRowInputs,
         selected \in {<<>>, << <<<<"9">>>> >>},
         mappings \in {<<>>, <<BrandTitle, QuantityFromQty>>},
         save \in {<<FALSE, <<>>>>, <<TRUE, <<>>>>, <<TRUE, <<<<" ", "M", "i", "n", "e", " ">>>>>>}}

\* bodies of POST preview-standardize
PreviewStandardizeInputs ==
    {[rows |-> rows, selected_row_numbers |-> selected, template_id |-> <<>>,
      standard_mappings |-> mappings[1], column_mappings |-> mappings[2],
      preview_limit |-> preview_limit, search_term |-> search_term] :
         rows \in GivenRowInputs,
         selected \in {<<>>, << <<<<"2">>>> >>, << <<<<"9">>>> >>},
         mappings \in {<<<<>>, <<>>>>, <<<<DescriptionLeftQty, QuantityFromQty>>, <<>>>>,
                       <<<<>>, <<BrandTitle, QuantityFromQty>>>>},
         preview_limit \in {<<>>, <<<<"1">>>>},
         search_term \in {<<>>, <<<<" ", "S", "O", "N", "Y", " ">>>>, <<<<"z", "z", "z">>>>}}

InitStored ==
    /\ argFormula = <<>>
    /\ argRow = <<>>
    /\ evalResult = NotCalled
    /\ validateResult = NotCalled
    /\ templates \in StoredTemplateInputs
    /\ lastTemplateId = Len(templates)
    /\ orders \in {<<order>> : order \in StoredOrderInputs}
    /\ manifest_rows = <<>>
    /\ items = <<>>
    /\ tables = NoTables
    /\ carts = <<>>
    /\ calls = <<>>
    /\ request = [op |-> "none"]
    /\ response = [op |-> "none"]

\* POST /orders/{pk}/process-manifest/, before any other request
ProcessManifest ==
    /\ response.op = "none"
    /\ \E pk \in 1..Len(orders), data \in ProcessManifestInputs :
        LET done == process_manifest(templates, lastTemplateId, orders[pk], manifest_rows, data)
        IN  /\ done.lastTemplateId <= MaxTemplates
            /\ request' = [op |-> "process_manifest", pk |-> pk, data |-> data]
            /\ response' = [op |-> "process_manifest", out |-> done.out]
            /\ templates' = done.templates
            /\ lastTemplateId' = done.lastTemplateId
            /\ orders' = [orders EXCEPT ![pk] = done.order]
            /\ manifest_rows' = done.manifest_rows
    /\ UNCHANGED <<argFormula, argRow, evalResult, validateResult, storeVars>>

\* a preview that deletes the order's ManifestRow records as process_manifest
\* does: the variant C18 must tell from PreviewStandardize
PreviewStandardize_ClearingRows ==
    /\ response.op # "preview_standardize"
    /\ \E pk \in 1..Len(orders), data \in PreviewStandardizeInputs :
        /\ request' = [op |-> "preview_standardize", pk |-> pk, data |-> data]
        /\ response' = [op |-> "preview_standardize",
                        out |-> preview_standardize(templates, orders[pk], data)]
        /\ manifest_rows' = SelectSeq(manifest_rows, LAMBDA r : r.purchase_order # pk)
    /\ UNCHANGED <<argFormula, argRow, evalResult, validateResult, templates, lastTemplateId,
                   orders, storeVars>>

\* POST /orders/{pk}/preview-standardize/: the handler reads the order, the
\* manifest file and the template table and writes to no table
PreviewStandardize ==
    /\ response.op # "preview_standardize"
    /\ \E pk \in 1..Len(orders), data \in PreviewStandardizeInputs :
        /\ request' = [op |-> "preview_standardize", pk |-> pk, data |-> data]
        /\ response' = [op |-> "preview_standardize",
                        out |-> preview_standardize(templates, orders[pk], data)]
    /\ UNCHANGED <<argFormula, argRow, evalResult, validateResult, templates, lastTemplateId,
                   orders, manifest_rows, storeVars>>

NextStored == ProcessManifest \/ PreviewStandardize

SpecStored == InitStored /\ [][NextStored]_vars


---------------------------------------------------------------------------
(* views.py: the handlers of an order's life, on the tables they read and write *)

\* the tables a handler works on
DB(orders_, manifest_rows_, items_, tables_) ==
    [orders |-> orders_, manifest_rows |-> manifest_rows_, items |-> items_, tables |-> tables_]

\* self.get_object(): the order with primary key pk (HasOrder: it exists)
HasOrder(db, pk) == \E i \in 1..Len(db.orders) : db.orders[i].id = pk

OrderOf(db, pk) == db.orders[CHOOSE i \in 1..Len(db.orders) : db.orders[i].id = pk]

\* order.save(): the row of the order's primary key takes the object's fields
SaveOrder(db, order) ==
    [db EXCEPT !.orders = [i \in 1..Len(db.orders) |->
                              IF db.orders[i].id = order.id THEN order ELSE db.orders[i]]]

\* order.save(update_fields=['status', 'item_count', 'updated_at'])
SaveOrderStatus(db, order) ==
    [db EXCEPT !.orders = [i \in 1..Len(db.orders) |->
                              IF db.orders[i].id = order.id
                              THEN [db.orders[i] EXCEPT !.status = order.status,
                                                        !.item_count = order.item_count]
                              ELSE db.orders[i]]]

\* order.items and ManifestRow.objects.filter(purchase_order=order)
ItemsOf(db, pk) == SelectSeq(db.items, LAMBDA item : item.purchase_order = <<pk>>)

RowsOf(db, pk) == SelectSeq(db.manifest_rows, LAMBDA row : row.purchase_order = pk)

\* the outcome of a handler: the tables afterwards and the Response
Handled(db, out) == [db |-> db, out |-> out]

\* PurchaseOrderSerializer(order).data
OrderData(order) == HandlerResponse("ok", "", order)

\* request.data.get(key, default) for a date: data[key] is <<>> when the key is
\* absent, else <<value>>, and a value is <<>> for null or <<date>>
DateOr(data, key, default) == IF data[key] = <<>> THEN <<default>> ELSE data[key][1]

Today == "2026-01-01"

mark_paid(db, pk, data) ==
    LET order == [OrderOf(db, pk) EXCEPT !.status = "paid",
                                         !.paid_date = DateOr(data, "paid_date", Today)]
    IN  Handled(SaveOrder(db, order), OrderData(order))

revert_paid(db, pk) ==
    LET order == [OrderOf(db, pk) EXCEPT !.status = "ordered", !.paid_date = <<>>]
    IN  Handled(SaveOrder(db, order), OrderData(order))

mark_shipped(db, pk, data) ==
    LET order == [OrderOf(db, pk) EXCEPT
                     !.status = "shipped",
                     !.shipped_date = DateOr(data, "shipped_date", Today),
                     !.expected_delivery =
                         IF data.expected_delivery # <<>> /\ data.expected_delivery[1] # <<>>
                         THEN data.expected_delivery[1] ELSE @]
    IN  Handled(SaveOrder(db, order), OrderData(order))

revert_shipped(db, pk) ==
    LET order == [OrderOf(db, pk) EXCEPT
                     !.shipped_date = <<>>,
                     !.expected_delivery = <<>>,
                     !.status = IF OrderOf(db, pk).paid_date # <<>> THEN "paid" ELSE "ordered"]
    IN  Handled(SaveOrder(db, order), OrderData(order))

revert_delivered(db, pk) ==
    LET order == [OrderOf(db, pk) EXCEPT
                     !.delivered_date = <<>>,
                     !.status = IF OrderOf(db, pk).paid_date # <<>> THEN "paid" ELSE "ordered"]
    IN  Handled(SaveOrder(db, order), OrderData(order))

---------------------------------------------------------------------------
(* views.py: _build_check_in_queue_from_manifest, step by step *)

\* effective_manifest_row_price(row)
effective_manifest_row_price(row) ==
    IF ~row.final_price.isNone THEN row.final_price ELSE row.proposed_price

\* float(price) < 75 for the decimal parse_decimal read
PriceBelow75(price) ==
    LET whole == SelectSeq(SubSeq(price.text, 1,
                               (CHOOSE i \in 1..(Len(price.text) + 1) :
                                   /\ i = Len(price.text) + 1 \/ price.text[i] = "."
                                   /\ \A j \in 1..(i - 1) : price.text[j] # ".") - 1),
                           IsDigit)
    IN  price.text[1] = "-" \/ DigitsValue(whole, 0) < 75

\* row.quantity if row.quantity and row.quantity > 0 else 1
ItemQuantity(row) == IF row.quantity > 0 THEN row.quantity ELSE 1

\* the locals of _build_check_in_queue_from_manifest between two of its steps
BuildLocals(order, rows, batch_id) ==
    [order |-> order, rows |-> rows, idx |-> 1, batch_id |-> batch_id, items_created |-> 0,
     batch_groups_created |-> 0, histories |-> <<>>]

\* the step of a function: the tables and the locals after it
Stepped(db, locals) == [db |-> db, locals |-> locals]

\* the three tests at the top and the creation of the ProcessingBatch; order is
\* the caller's order object; <<>> stands for the return of (None, None)
BuildStart(db, order) ==
    IF order.status \notin {"delivered", "processing", "complete"} THEN <<>>
    ELSE IF ItemsOf(db, order.id) # <<>> THEN <<>>
    ELSE IF RowsOf(db, order.id) = <<>> THEN <<>>
    ELSE LET id == db.tables.last_id.processing_batches + 1
             batch == [id |-> id, purchase_order |-> order.id, status |-> "in_progress",
                       total_rows |-> Len(RowsOf(db, order.id)), processed_count |-> 0,
                       items_created |-> 0]
         IN  <<Stepped([db EXCEPT !.tables.processing_batches = Append(@, batch),
                                  !.tables.last_id.processing_batches = id],
                       BuildLocals(order, RowsOf(db, order.id), id))>>

\* the items of one row: the quantity of the row, from the id after first_id
ItemsOfRow(row, order, product, batch_group, is_batch, first_id) ==
    [k \in 1..ItemQuantity(row) |->
        [id |-> first_id + k,
         sku |-> first_id + k,
         product |-> <<product.id>>,
         purchase_order |-> <<order.id>>,
         manifest_row |-> <<row.id>>,
         batch_group |-> batch_group,
         processing_tier |-> IF is_batch THEN "batch" ELSE "individual",
         title |-> IF row.title # <<>> THEN row.title
                   ELSE IF product.title # <<>> THEN product.title ELSE row.description,
         price |-> IF ~effective_manifest_row_price(row).isNone
                   THEN effective_manifest_row_price(row)
                   ELSE IF ~product.default_price.isNone THEN product.default_price
                   ELSE [isNone |-> FALSE, text |-> <<"0", ".", "0", "0">>],
         cost |-> row.retail_value,
         source |-> "purchased",
         status |-> "intake"]]

\* one pass of the loop over the rows: the row at locals.idx
BuildRow(db, locals) ==
    LET row == locals.rows[locals.idx]
        matched == Has(row, "matched_product") /\ row.matched_product # <<>>
        product_id == IF matched THEN row.matched_product[1] ELSE db.tables.last_id.products + 1
        product == IF matched
                   THEN db.tables.products[CHOOSE i \in 1..Len(db.tables.products) :
                                               db.tables.products[i].id = product_id]
                   ELSE [id |-> product_id,
                         title |-> IF row.description # <<>> THEN row.description
                                   ELSE <<"U", "n", "t", "i", "t", "l", "e", "d", " ", "I", "t", "e", "m">>,
                         brand |-> row.brand,
                         default_price |-> [isNone |-> TRUE, text |-> <<>>]]
        row_price == effective_manifest_row_price(row)
        is_batch == IF ~row_price.isNone THEN ItemQuantity(row) >= 6 /\ PriceBelow75(row_price)
                    ELSE ItemQuantity(row) >= 10
        group_id == db.tables.last_id.batch_groups + 1
        created == ItemsOfRow(row, locals.order, product,
                              IF is_batch THEN <<group_id>> ELSE <<>>, is_batch,
                              db.tables.last_id.items)
        Matched(r) == [k \in DOMAIN r \cup {"matched_product"} |->
                          IF k = "matched_product" THEN <<product_id>>
                          ELSE IF k = "match_status" THEN "matched" ELSE r[k]]
    IN  Stepped(
            [db EXCEPT
                !.manifest_rows =
                    [i \in 1..Len(@) |-> IF ~matched /\ @[i].id = row.id THEN Matched(@[i])
                                         ELSE @[i]],
                !.items = @ \o created,
                !.tables.products = IF matched THEN @ ELSE Append(@, product),
                !.tables.batch_groups =
                    IF is_batch
                    THEN Append(@, [id |-> group_id, purchase_order |-> <<locals.order.id>>,
                                    manifest_row |-> <<row.id>>,
                                    total_qty |-> ItemQuantity(row), status |-> "pending"])
                    ELSE @,
                !.tables.last_id.products = IF matched THEN @ ELSE product_id,
                !.tables.last_id.batch_groups = IF is_batch THEN group_id ELSE @,
                !.tables.last_id.items = @ + ItemQuantity(row)],
            [locals EXCEPT
                !.idx = @ + 1,
                !.items_created = @ + ItemQuantity(row),
                !.batch_groups_created = IF is_batch THEN @ + 1 ELSE @,
                !.histories = @ \o [k \in 1..Len(created) |->
                                       [item |-> created[k].id, event_type |-> "created",
                                        row_number |-> row.row_number]]])

\* after the loop: the histories, the batch, the order
BuildFinish(db, locals) ==
    LET order == [locals.order EXCEPT !.status = "processing",
                                      !.item_count = locals.items_created]
        Done(batches) ==
            [i \in 1..Len(batches) |->
                IF batches[i].id = locals.batch_id
                THEN [batches[i] EXCEPT !.processed_count = Len(locals.rows),
                                        !.items_created = locals.items_created,
                                        !.status = "complete"]
                ELSE batches[i]]
    IN  Stepped(SaveOrderStatus([db EXCEPT !.tables.item_history = @ \o locals.histories,
                                           !.tables.processing_batches = Done(@)],
                                order),
                [locals EXCEPT !.order = order])

\* the loop over the rows, from locals.idx on
RECURSIVE BuildRows(_, _)
BuildRows(db, locals) ==
    IF locals.idx > Len(locals.rows) THEN Stepped(db, locals)
    ELSE BuildRows(BuildRow(db, locals).db, BuildRow(db, locals).locals)

\* _build_check_in_queue_from_manifest(order, user), start to end: <<>> for
\* (None, None), else the tables and the locals at the return
build_check_in_queue_from_manifest(db, order) ==
    LET Loop(start) == BuildFinish(BuildRows(start.db, start.locals).db,
                                   BuildRows(start.db, start.locals).locals)
    IN  IF BuildStart(db, order) = <<>> THEN <<>> ELSE <<Loop(BuildStart(db, order)[1])>>

---------------------------------------------------------------------------
(* views.py: deliver and create_items, step by step and as a whole *)

\* deliver up to order.save(): the order object it goes on with
DeliverSave(db, pk, data) ==
    LET order == [OrderOf(db, pk) EXCEPT
                     !.status = "delivered",
                     !.delivered_date = DateOr(data, "delivered_date", Today)]
    IN  Stepped(SaveOrder(db, order), order)

\* order.manifest_rows.exists() and not order.items.exists()
DeliverBuilds(db, pk) == RowsOf(db, pk) # <<>> /\ ItemsOf(db, pk) = <<>>

\* the Response of deliver: the order read back when the queue was called for,
\* with the counts when it was built; built is <<>> for None
DeliverResponse(order, built) ==
    HandlerResponse("ok", "",
        [order |-> order,
         items_created |-> IF built = <<>> THEN <<>> ELSE <<built[1].items_created>>,
         batch_groups_created |-> IF built = <<>> THEN <<>>
                                  ELSE <<built[1].batch_groups_created>>])

deliver(db, pk, data) ==
    LET saved == DeliverSave(db, pk, data)
        Built(done) ==
            IF done = <<>> THEN Handled(saved.db, DeliverResponse(OrderOf(saved.db, pk), <<>>))
            ELSE Handled(done[1].db, DeliverResponse(OrderOf(done[1].db, pk), <<done[1].locals>>))
    IN  IF DeliverBuilds(saved.db, pk)
        THEN Built(build_check_in_queue_from_manifest(saved.db, saved.locals))
        ELSE Handled(saved.db, DeliverResponse(saved.locals, <<>>))

\* the three tests of create_items before it calls the builder: the detail of
\* the 400 response, "" when the tests pass
CreateItemsRefusal(db, pk) ==
    IF OrderOf(db, pk).status \notin {"delivered", "processing", "complete"}
    THEN "Items can only be created after delivery."
    ELSE IF ItemsOf(db, pk) # <<>> THEN "Items already exist for this order."
    ELSE IF RowsOf(db, pk) = <<>> THEN "No manifest rows to process."
    ELSE ""

\* the Response of create_items after the builder returned; built is <<>> for None
CreateItemsResponse(db, pk, built) ==
    LET batches == SelectSeq(db.tables.processing_batches, LAMBDA b : b.purchase_order = pk)
    IN  IF built = <<>>
        THEN HandlerResponse("error", "Could not build check-in queue.", EmptyDict)
        ELSE HandlerResponse("ok", "",
                 [batch_id |-> IF batches = <<>> THEN <<>> ELSE <<batches[Len(batches)].id>>,
                  items_created |-> built[1].items_created,
                  batch_groups_created |-> built[1].batch_groups_created])

create_items(db, pk) ==
    LET Built(done) ==
            IF done = <<>> THEN Handled(db, CreateItemsResponse(db, pk, <<>>))
            ELSE Handled(done[1].db, CreateItemsResponse(done[1].db, pk, <<done[1].locals>>))
    IN  IF CreateItemsRefusal(db, pk) # ""
        THEN Handled(db, HandlerResponse("error", CreateItemsRefusal(db, pk), EmptyDict))
        ELSE Built(build_check_in_queue_from_manifest(db, OrderOf(db, pk)))

---------------------------------------------------------------------------
(* views.py: clear_manifest_rows, check_in_items, mark_complete, purge_delete *)

\* ManifestRow ... .delete(): the rows go, and the items and batch groups that
\* point at them keep a null manifest_row (on_delete=SET_NULL)
DeleteRows(db, ids) ==
    LET Unlinked(rec) == IF rec.manifest_row # <<>> /\ rec.manifest_row[1] \in ids
                         THEN [rec EXCEPT !.manifest_row = <<>>] ELSE rec
    IN  [db EXCEPT
            !.manifest_rows = SelectSeq(@, LAMBDA row : row.id \notin ids),
            !.items = [i \in 1..Len(@) |-> Unlinked(@[i])],
            !.tables.batch_groups = [i \in 1..Len(@) |-> Unlinked(@[i])]]

RowIds(rows) == {rows[i].id : i \in 1..Len(rows)}

clear_manifest_rows(db, pk) ==
    IF ItemsOf(db, pk) # <<>>
    THEN Handled(db, HandlerResponse("error", "Cannot clear manifest rows", EmptyDict))
    ELSE Handled(DeleteRows(db, RowIds(RowsOf(db, pk))),
                 HandlerResponse("ok", "", [rows_deleted |-> Len(RowsOf(db, pk))]))

\* check_in_items for a body that holds item_ids and statuses and no other key
check_in_items(db, pk, data) ==
    LET order == OrderOf(db, pk)
        item_ids == parse_id_list(data.item_ids)
        Selected(item) ==
            /\ item.purchase_order = <<pk>>
            /\ item.status \notin {"sold", "scrapped", "lost"}
            /\ item_ids # <<>> => \E i \in 1..Len(item_ids) : item_ids[i] = item.id
            /\ data.statuses # <<>> => \E i \in 1..Len(data.statuses) :
                                           data.statuses[i] = item.status
        found == SelectSeq(db.items, Selected)
        changed == SelectSeq(found, LAMBDA item : item.status # "on_shelf")
        status_ == IF order.status \in {"delivered", "ordered", "paid", "shipped"}
                   THEN "processing" ELSE order.status
        Checked == [db EXCEPT
                       !.items = [i \in 1..Len(@) |->
                                     IF Selected(@[i]) THEN [@[i] EXCEPT !.status = "on_shelf"]
                                     ELSE @[i]],
                       !.tables.item_history =
                           @ \o [k \in 1..Len(changed) |->
                                    [item |-> changed[k].id, event_type |-> "status_change",
                                     row_number |-> 0]]]
    IN  IF found = <<>>
        THEN Handled(db, HandlerResponse("error", "No items found for check-in.", EmptyDict))
        ELSE Handled(SaveOrderStatus(Checked, [order EXCEPT !.status = status_]),
                     HandlerResponse("ok", "", [checked_in |-> Len(found),
                                                order_status |-> status_]))

\* mark_complete counting the items in 'intake' only: the variant C30 must
\* tell from mark_complete
mark_complete_CountingIntake(db, pk) ==
    LET order == OrderOf(db, pk)
        pending == Len(SelectSeq(ItemsOf(db, pk), LAMBDA item : item.status = "intake"))
        complete == [order EXCEPT !.status = "complete"]
    IN  IF pending > 0
        THEN Handled(db, HandlerResponse("error", "item(s) still pending processing.",
                                         [pending |-> pending]))
        ELSE Handled(SaveOrderStatus(db, complete), OrderData(complete))

mark_complete(db, pk) ==
    LET order == OrderOf(db, pk)
        pending == Len(SelectSeq(ItemsOf(db, pk),
                                 LAMBDA item : item.status \in {"intake", "processing"}))
        complete == [order EXCEPT !.status = "complete"]
    IN  IF pending > 0
        THEN Handled(db, HandlerResponse("error", "item(s) still pending processing.",
                                         [pending |-> pending]))
        ELSE Handled(SaveOrderStatus(db, complete), OrderData(complete))

\* purge_delete; data.confirm_order_number is <<>> when the key is absent;
\* the deletion of the file heeds manifest_file_shared when heed_shared holds
PurgeDeleteWith(db, pk, data, heed_shared) ==
    LET order == OrderOf(db, pk)
        confirmation == IF data.confirm_order_number = <<>> THEN <<>>
                        ELSE StrStrip(data.confirm_order_number[1])
        manifest_file_shared ==
            /\ order.manifest # <<>>
            /\ \E i \in 1..Len(db.orders) :
                   /\ db.orders[i].id # pk
                   /\ db.orders[i].manifest # <<>>
                   /\ db.orders[i].manifest[1].id = order.manifest[1].id
        item_ids == {ItemsOf(db, pk)[i].id : i \in 1..Len(ItemsOf(db, pk))}
        OfItems(recs) == SelectSeq(recs, LAMBDA rec : rec.item \in item_ids)
        NotOfItems(recs) == SelectSeq(recs, LAMBDA rec : rec.item \notin item_ids)
        OfOrder(recs) == SelectSeq(recs, LAMBDA rec : rec.purchase_order = <<pk>>)
        drop_file == order.manifest # <<>> /\ ~(heed_shared /\ manifest_file_shared)
        deleted == [item_history |-> Len(OfItems(db.tables.item_history)),
                    item_scans |-> Len(OfItems(db.tables.item_scans)),
                    items |-> Len(ItemsOf(db, pk)),
                    batch_groups |-> Len(OfOrder(db.tables.batch_groups)),
                    processing_batches |->
                        Len(SelectSeq(db.tables.processing_batches,
                                      LAMBDA b : b.purchase_order = pk)),
                    manifest_rows |-> Len(RowsOf(db, pk)),
                    manifest_file |-> IF drop_file THEN 1 ELSE 0,
                    order |-> 1]
        rows_gone == DeleteRows(db, RowIds(RowsOf(db, pk)))
        Unfiled(o) == IF drop_file /\ o.manifest # <<>> /\ o.manifest[1].id = order.manifest[1].id
                      THEN [o EXCEPT !.manifest = <<>>] ELSE o
        purged ==
            [rows_gone EXCEPT
                !.orders = SelectSeq([i \in 1..Len(@) |-> Unfiled(@[i])], LAMBDA o : o.id # pk),
                !.items = SelectSeq(@, LAMBDA item : item.purchase_order # <<pk>>),
                !.tables.item_history = NotOfItems(@),
                !.tables.item_scans = NotOfItems(@),
                !.tables.batch_groups = SelectSeq(@, LAMBDA g : g.purchase_order # <<pk>>),
                !.tables.processing_batches = SelectSeq(@, LAMBDA b : b.purchase_order # pk),
                !.tables.files = IF drop_file THEN @ \ {order.manifest[1].id} ELSE @]
    IN  IF confirmation = <<>>
        THEN Handled(db, HandlerResponse("error", "confirm_order_number is required.", EmptyDict))
        ELSE IF confirmation # order.order_number
        THEN Handled(db, HandlerResponse("error",
                 "Confirmation value does not match this order number.", EmptyDict))
        ELSE Handled(purged,
                     HandlerResponse("ok", "",
                         [order_id |-> pk, order_number |-> order.order_number,
                          deleted |-> deleted,
                          manifest_file_shared |-> manifest_file_shared]))

\* purge_delete deleting the manifest file even when another order references
\* it: the variant C28 must tell from purge_delete
purge_delete_DroppingSharedFile(db, pk, data) == PurgeDeleteWith(db, pk, data, FALSE)

purge_delete(db, pk, data) == PurgeDeleteWith(db, pk, data, TRUE)

\* BatchGroupViewSet.detach on batch group pk; data.item_id is <<>> when the
\* key is absent, else <<id>>
detach(db, pk, data) ==
    LET Detachable(item) == /\ item.batch_group = <<pk>>
                            /\ item.status \notin {"sold", "scrapped", "lost"}
                            /\ data.item_id # <<>> => item.id = data.item_id[1]
        found == SelectSeq(db.items, Detachable)
        item == found[1]
        remaining == Len(SelectSeq(db.items, LAMBDA i : i.batch_group = <<pk>>)) - 1
        Detached(group) ==
            IF group.id # pk THEN group
            ELSE [group EXCEPT !.total_qty = remaining,
                               !.status = IF remaining = 0 THEN "complete" ELSE @]
        detached ==
            [db EXCEPT
                !.items = [i \in 1..Len(@) |->
                              IF @[i].id = item.id
                              THEN [@[i] EXCEPT !.batch_group = <<>>,
                                                !.processing_tier = "individual",
                                                !.status = "processing"]
                              ELSE @[i]],
                !.tables.item_history =
                    Append(@, [item |-> item.id, event_type |-> "detached_from_batch",
                               row_number |-> 0]),
                !.tables.batch_groups = [i \in 1..Len(@) |-> Detached(@[i])]]
    IN  IF found = <<>>
        THEN Handled(db, HandlerResponse("error", "No detachable item found.", EmptyDict))
        ELSE Handled(detached,
                     HandlerResponse("ok", "", [detached_item_id |-> item.id,
                                                detached_item_sku |-> item.sku,
                                                remaining_in_batch |-> remaining]))

---------------------------------------------------------------------------
(* The check-in queue under concurrent requests: deliver and create_items of
   several requests, each advancing one step at a time. views.py opens no
   transaction and takes no lock in these handlers, so another request may
   run between any two of a request's queries. A step below holds the
   queries of one test or of one pass of the loop; the schedules of the model
   are schedules of the program. *)

\* a stored PurchaseOrder
OrderRecord(id, order_number, status, manifest) ==
    [id |-> id, order_number |-> order_number, vendor |-> 1, status |-> status,
     paid_date |-> <<>>, shipped_date |-> <<>>, expected_delivery |-> <<>>,
     delivered_date |-> <<>>, manifest |-> manifest, manifest_preview |-> <<>>,
     item_count |-> 0]

\* a stored ManifestRow: the row ManifestRowOf makes, with its primary key and
\* no matched product
StoredRow(order, id, row_data) ==
    LET row == ManifestRowOf(order, row_data)
    IN  [k \in DOMAIN row \cup {"id", "matched_product"} |->
            IF k = "id" THEN id ELSE IF k = "matched_product" THEN <<>> ELSE row[k]]

\* normalized rows: two priced units, one unpriced unit, six cheap units
RowTwoPriced == [row_number |-> 1, quantity |-> 2, description |-> <<"t", "v">>, final_price |-> <<"9", ".", "9", "9">>]
RowOneUnpriced == [row_number |-> 2, quantity |-> 1, description |-> <<>>]
RowSixCheap == [row_number |-> 1, quantity |-> 6, title |-> <<"c", "u", "p">>, proposed_price |-> <<"5", ".", "0", "0">>]

\* the ManifestRow table of order 1 before the requests
CheckInRowInputs ==
    LET order == OrderRecord(1, <<"P", "O", "-", "1">>, "shipped", <<>>)
    IN  { <<>>,
          <<StoredRow(order, 1, RowTwoPriced), StoredRow(order, 2, RowOneUnpriced)>>,
          <<StoredRow(order, 1, RowSixCheap)>> }

\* bodies of POST deliver
DeliverInputs == {[delivered_date |-> <<>>], [delivered_date |-> << <<"2025-12-31">> >>]}

\* at most MaxRequests requests in one behaviour
MaxRequests == 2

InitCheckIn ==
    /\ argFormula = <<>>
    /\ argRow = <<>>
    /\ evalResult = NotCalled
    /\ validateResult = NotCalled
    /\ templates = <<>>
    /\ lastTemplateId = 0
    /\ orders \in {<<OrderRecord(1, <<"P", "O", "-", "1">>, status, <<>>)>> : status \in {"shipped", "delivered"}}
    /\ manifest_rows \in CheckInRowInputs
    /\ items = <<>>
    /\ tables = [NoTables EXCEPT !.last_id.manifest_rows = Len(manifest_rows)]
    /\ carts = <<>>
    /\ calls = <<>>
    /\ request = [op |-> "none"]
    /\ response = [op |-> "none"]

otherVarsCheckIn ==
    <<argFormula, argRow, evalResult, validateResult, templates, lastTemplateId, carts>>

\* the tables the handlers of an order work on
CurrentDB == DB(orders, manifest_rows, items, tables)

\* the tables become db, and call c becomes call
Advance(c, db, call) ==
    /\ orders' = db.orders
    /\ manifest_rows' = db.manifest_rows
    /\ items' = db.items
    /\ tables' = db.tables
    /\ calls' = [calls EXCEPT ![c] = call]
    /\ UNCHANGED <<otherVarsCheckIn, request, response>>

\* call c ends with the Response out
Answer(c, db, out) ==
    /\ orders' = db.orders
    /\ manifest_rows' = db.manifest_rows
    /\ items' = db.items
    /\ tables' = db.tables
    /\ calls' = [calls EXCEPT ![c].pc = "done", ![c].out = <<out>>]
    /\ request' = [op |-> calls[c].op, pk |-> calls[c].pk, data |-> calls[c].data]
    /\ response' = [op |-> calls[c].op, out |-> out]
    /\ UNCHANGED otherVarsCheckIn

\* a request arrives: POST /orders/{pk}/deliver/ or POST /orders/{pk}/create-items/
Arrive(op, data) ==
    /\ Len(calls) < MaxRequests
    /\ calls' = Append(calls, [op |-> op, pk |-> 1, data |-> data, pc |-> "start",
                               order |-> <<>>, locals |-> <<>>, built |-> <<>>, out |-> <<>>])
    /\ UNCHANGED <<otherVarsCheckIn, orders, manifest_rows, items, tables, request, response>>

ArriveDeliver == \E data \in DeliverInputs : Arrive("deliver", data)

ArriveCreateItems == Arrive("create_items", EmptyDict)

\* deliver: get_object() to order.save()
DeliverSaved ==
    \E c \in 1..Len(calls) :
        /\ calls[c].op = "deliver" /\ calls[c].pc = "start"
        /\ LET saved == DeliverSave(CurrentDB, calls[c].pk, calls[c].data)
           IN  Advance(c, saved.db, [calls[c] EXCEPT !.pc = "saved", !.order = <<saved.locals>>])

\* deliver: the test before the builder, when it passes
DeliverCallsBuilder ==
    \E c \in 1..Len(calls) :
        /\ calls[c].op = "deliver" /\ calls[c].pc = "saved"
        /\ DeliverBuilds(CurrentDB, calls[c].pk)
        /\ Advance(c, CurrentDB, [calls[c] EXCEPT !.pc = "build"])

\* deliver: the test before the builder, when it fails
DeliverWithoutBuilder ==
    \E c \in 1..Len(calls) :
        /\ calls[c].op = "deliver" /\ calls[c].pc = "saved"
        /\ ~DeliverBuilds(CurrentDB, calls[c].pk)
        /\ Answer(c, CurrentDB, DeliverResponse(calls[c].order[1], <<>>))

\* create_items: get_object() and the three tests, when one refuses
CreateItemsRefused ==
    \E c \in 1..Len(calls) :
        /\ calls[c].op = "create_items" /\ calls[c].pc = "start"
        /\ CreateItemsRefusal(CurrentDB, calls[c].pk) # ""
        /\ Answer(c, CurrentDB,
                  HandlerResponse("error", CreateItemsRefusal(CurrentDB, calls[c].pk), EmptyDict))

\* create_items: get_object() and the three tests, when they pass
CreateItemsCallsBuilder ==
    \E c \in 1..Len(calls) :
        /\ calls[c].op = "create_items" /\ calls[c].pc = "start"
        /\ CreateItemsRefusal(CurrentDB, calls[c].pk) = ""
        /\ Advance(c, CurrentDB, [calls[c] EXCEPT !.pc = "build",
                                                  !.order = <<OrderOf(CurrentDB, calls[c].pk)>>])

\* _build_check_in_queue_from_manifest: the tests at its top fail
BuilderReturnsNone ==
    \E c \in 1..Len(calls) :
        /\ calls[c].pc = "build"
        /\ BuildStart(CurrentDB, calls[c].order[1]) = <<>>
        /\ Advance(c, CurrentDB, [calls[c] EXCEPT !.pc = "built"])

\* _build_check_in_queue_from_manifest: the tests pass, the ProcessingBatch is created
BuilderStarts ==
    \E c \in 1..Len(calls) :
        /\ calls[c].pc = "build"
        /\ BuildStart(CurrentDB, calls[c].order[1]) # <<>>
        /\ LET started == BuildStart(CurrentDB, calls[c].order[1])[1]
           IN  Advance(c, started.db, [calls[c] EXCEPT !.pc = "rows",
                                                       !.locals = <<started.locals>>])

\* _build_check_in_queue_from_manifest: one pass of the loop over the rows
BuilderTakesRow ==
    \E c \in 1..Len(calls) :
        /\ calls[c].pc = "rows"
        /\ calls[c].locals[1].idx <= Len(calls[c].locals[1].rows)
        /\ LET passed == BuildRow(CurrentDB, calls[c].locals[1])
           IN  Advance(c, passed.db, [calls[c] EXCEPT !.locals = <<passed.locals>>])

\* _build_check_in_queue_from_manifest: after the loop
BuilderFinishes ==
    \E c \in 1..Len(calls) :
        /\ calls[c].pc = "rows"
        /\ calls[c].locals[1].idx > Len(calls[c].locals[1].rows)
        /\ LET finished == BuildFinish(CurrentDB, calls[c].locals[1])
           IN  Advance(c, finished.db, [calls[c] EXCEPT !.pc = "built",
                                                        !.built = <<finished.locals>>])

\* deliver after the builder: order.refresh_from_db() and the Response
DeliverAnswers ==
    \E c \in 1..Len(calls) :
        /\ calls[c].op = "deliver" /\ calls[c].pc = "built"
        /\ Answer(c, CurrentDB, DeliverResponse(OrderOf(CurrentDB, calls[c].pk), calls[c].built))

\* create_items after the builder: the latest ProcessingBatch and the Response
CreateItemsAnswers ==
    \E c \in 1..Len(calls) :
        /\ calls[c].op = "create_items" /\ calls[c].pc = "built"
        /\ Answer(c, CurrentDB, CreateItemsResponse(CurrentDB, calls[c].pk, calls[c].built))

NextCheckIn ==
    \/ ArriveDeliver
    \/ ArriveCreateItems
    \/ DeliverSaved
    \/ DeliverCallsBuilder
    \/ DeliverWithoutBuilder
    \/ CreateItemsRefused
    \/ CreateItemsCallsBuilder
    \/ BuilderReturnsNone
    \/ BuilderStarts
    \/ BuilderTakesRow
    \/ BuilderFinishes
    \/ DeliverAnswers
    \/ CreateItemsAnswers

SpecCheckIn == InitCheckIn /\ [][NextCheckIn]_vars

---------------------------------------------------------------------------
(* The requests of an order's life, one at a time: each action is one request
   handled from its first statement to its Response. *)

\* process_manifest on the tables of an order: the ManifestRow records it
\* creates take the next primary keys, and the items and batch groups of the
\* records it deletes keep a null manifest_row
process_manifest_stored(table, last_id, db, pk, data) ==
    LET old == RowsOf(db, pk)
        kept == Len(db.manifest_rows) - Len(old)
        first_id == db.tables.last_id.manifest_rows
        Keyed(row, id) == [k \in DOMAIN row \cup {"id", "matched_product"} |->
                              IF k = "id" THEN id
                              ELSE IF k = "matched_product" THEN <<>> ELSE row[k]]
        Rows(rows) == [i \in 1..Len(rows) |->
                          IF i <= kept THEN rows[i] ELSE Keyed(rows[i], first_id + i - kept)]
        Written(rows) == [DeleteRows(db, RowIds(old)) EXCEPT
                             !.manifest_rows = Rows(rows),
                             !.tables.last_id.manifest_rows = first_id + Len(rows) - kept]
        Stored(done) ==
            [out |-> done.out, templates |-> done.templates,
             lastTemplateId |-> done.lastTemplateId,
             db |-> IF done.out.kind = "ok"
                    THEN SaveOrder(Written(done.manifest_rows), done.order) ELSE db]
    IN  CHOOSE stored \in
            {Stored(done) : done \in {process_manifest(table, last_id, OrderOf(db, pk),
                                                       db.manifest_rows, data)}} : TRUE

\* the manifest files of the S3File table
FileOne == [id |-> 1, headers |-> HeadersQtyDescCost, lines |-> << <<<<"2">>, <<"t", "v">>, <<"9", ".", "9", "9">>>> >>]

\* the tables before the requests: order PO-1 as created, without ManifestRow
\* records, with a row of two units or with a row of six cheap units; order
\* PO-2 with no manifest file or with the file of PO-1, with one ManifestRow,
\* after its delivery and one scan of its item
OrderTableInputs ==
    LET PO1 == OrderRecord(1, <<"P", "O", "-", "1">>, "ordered", <<FileOne>>)
        PO2(manifest) == OrderRecord(2, <<"P", "O", "-", "2">>, "ordered", manifest)
        Rows(first) == first \o <<StoredRow(PO2(<<>>), Len(first) + 1, RowOneUnpriced)>>
        Tables(manifest, first) ==
            DB(<<PO1, PO2(manifest)>>, Rows(first), <<>>,
               [NoTables EXCEPT !.files = {FileOne.id},
                                !.last_id.manifest_rows = Len(Rows(first))])
        created == {Tables(manifest, first) :
                        manifest \in {<<>>, <<FileOne>>},
                        first \in {<<>>, <<StoredRow(PO1, 1, RowTwoPriced)>>,
                                   <<StoredRow(PO1, 1, RowSixCheap)>>}}
        Scanned(db) == [db EXCEPT !.tables.item_scans = <<[item |-> db.items[1].id]>>]
    IN  {Scanned(deliver(db, 2, [delivered_date |-> <<>>]).db) : db \in created}

\* bodies of POST mark-paid: no date, a null date
MarkPaidInputs == {[paid_date |-> <<>>], [paid_date |-> << <<>> >>]}

\* bodies of POST mark-shipped
MarkShippedInputs == {[shipped_date |-> <<>>, expected_delivery |-> <<>>]}

\* bodies of POST check-in-items: every item, or the item of primary key 2
\* (the first item of PO-1 when PO-2 holds item 1)
CheckInInputs == {[item_ids |-> <<>>, statuses |-> <<>>],
                  [item_ids |-> << <<<<"2">>>> >>, statuses |-> <<>>]}

\* bodies of POST process-manifest: one row sent back, or a selection of no row
OrderManifestInputs ==
    {[rows |-> <<[row_number |-> 1, quantity |-> 1, description |-> <<"t", "v">>, title |-> <<>>,
                  brand |-> <<>>, model |-> <<>>, category |-> <<>>, condition |-> <<>>,
                  retail_value |-> [isNone |-> TRUE, text |-> <<>>], upc |-> <<>>,
                  vendor_item_number |-> <<>>, notes |-> <<>>]>>,
      selected_row_numbers |-> selected, template_id |-> <<>>, standard_mappings |-> <<>>,
      column_mappings |-> <<>>, save_template |-> FALSE, template_name |-> <<>>] :
         selected \in {<<>>, << <<<<"9">>>> >>}}

\* bodies of POST purge-delete: no confirmation, the number of PO-1 between
\* blanks, the number of PO-2
PurgeInputs == {[confirm_order_number |-> c] : c \in {<<>>, <<<<" ", "P", "O", "-", "1", " ">>>>, <<<<"P", "O", "-", "2">>>>}}

\* process-manifest is requested while the ManifestRow keys are below MaxRowId
MaxRowId == 3

InitOrders ==
    /\ argFormula = <<>>
    /\ argRow = <<>>
    /\ evalResult = NotCalled
    /\ validateResult = NotCalled
    /\ templates = <<>>
    /\ lastTemplateId = 0
    /\ \E db \in OrderTableInputs :
        /\ orders = db.orders
        /\ manifest_rows = db.manifest_rows
        /\ items = db.items
        /\ tables = db.tables
    /\ carts = <<>>
    /\ calls = <<>>
    /\ request = [op |-> "none"]
    /\ response = [op |-> "none"]

\* the request op on order pk with body data is handled: done is its outcome
Served(op, pk, data, done) ==
    /\ request' = [op |-> op, pk |-> pk, data |-> data]
    /\ response' = [op |-> op, out |-> done.out]
    /\ orders' = done.db.orders
    /\ manifest_rows' = done.db.manifest_rows
    /\ items' = done.db.items
    /\ tables' = done.db.tables
    /\ UNCHANGED <<argFormula, argRow, evalResult, validateResult, carts, calls>>

\* the status requests go to order PO-1
HasFirst == HasOrder(CurrentDB, 1)

MarkPaid ==
    /\ HasFirst
    /\ \E data \in MarkPaidInputs : Served("mark_paid", 1, data, mark_paid(CurrentDB, 1, data))
    /\ UNCHANGED <<templates, lastTemplateId>>

RevertPaid ==
    /\ HasFirst
    /\ Served("revert_paid", 1, EmptyDict, revert_paid(CurrentDB, 1))
    /\ UNCHANGED <<templates, lastTemplateId>>

MarkShipped ==
    /\ HasFirst
    /\ \E data \in MarkShippedInputs :
           Served("mark_shipped", 1, data, mark_shipped(CurrentDB, 1, data))
    /\ UNCHANGED <<templates, lastTemplateId>>

RevertShipped ==
    /\ HasFirst
    /\ Served("revert_shipped", 1, EmptyDict, revert_shipped(CurrentDB, 1))
    /\ UNCHANGED <<templates, lastTemplateId>>

Deliver ==
    /\ HasFirst
    /\ Served("deliver", 1, [delivered_date |-> <<>>],
              deliver(CurrentDB, 1, [delivered_date |-> <<>>]))
    /\ UNCHANGED <<templates, lastTemplateId>>

RevertDelivered ==
    /\ HasFirst
    /\ Served("revert_delivered", 1, EmptyDict, revert_delivered(CurrentDB, 1))
    /\ UNCHANGED <<templates, lastTemplateId>>

CreateItems ==
    /\ HasFirst
    /\ Served("create_items", 1, EmptyDict, create_items(CurrentDB, 1))
    /\ UNCHANGED <<templates, lastTemplateId>>

CheckInItems ==
    /\ HasFirst
    /\ \E data \in CheckInInputs :
           Served("check_in_items", 1, data, check_in_items(CurrentDB, 1, data))
    /\ UNCHANGED <<templates, lastTemplateId>>

MarkComplete ==
    /\ HasFirst
    /\ Served("mark_complete", 1, EmptyDict, mark_complete(CurrentDB, 1))
    /\ UNCHANGED <<templates, lastTemplateId>>

ClearManifestRows ==
    /\ HasFirst
    /\ Served("clear_manifest_rows", 1, EmptyDict, clear_manifest_rows(CurrentDB, 1))
    /\ UNCHANGED <<templates, lastTemplateId>>

\* POST /batch-groups/{pk}/detach/ on the first batch group of order PO-1,
\* requested once
Detach ==
    /\ \E i \in 1..Len(tables.batch_groups) : tables.batch_groups[i].purchase_order = <<1>>
    /\ \A i \in 1..Len(tables.item_history) :
           tables.item_history[i].event_type # "detached_from_batch"
    /\ LET group == SelectSeq(tables.batch_groups, LAMBDA g : g.purchase_order = <<1>>)[1]
       IN  Served("detach", group.id, [item_id |-> <<>>],
                  detach(CurrentDB, group.id, [item_id |-> <<>>]))
    /\ UNCHANGED <<templates, lastTemplateId>>

ProcessManifestStored ==
    /\ HasFirst
    /\ tables.last_id.manifest_rows < MaxRowId
    /\ \E data \in OrderManifestInputs :
        \E done \in {process_manifest_stored(templates, lastTemplateId, CurrentDB, 1, data)} :
            /\ Served("process_manifest", 1, data, done)
            /\ templates' = done.templates
            /\ lastTemplateId' = done.lastTemplateId

PurgeDelete ==
    \E pk \in {1, 2}, data \in PurgeInputs :
        /\ HasOrder(CurrentDB, pk)
        /\ Served("purge_delete", pk, data, purge_delete(CurrentDB, pk, data))
        /\ UNCHANGED <<templates, lastTemplateId>>

NextOrders ==
    \/ MarkPaid
    \/ RevertPaid
    \/ MarkShipped
    \/ RevertShipped
    \/ Deliver
    \/ RevertDelivered
    \/ CreateItems
    \/ CheckInItems
    \/ MarkComplete
    \/ ClearManifestRows
    \/ Detach
    \/ ProcessManifestStored
    \/ PurgeDelete

SpecOrders == InitOrders /\ [][NextOrders]_vars

---------------------------------------------------------------------------
(* pos/views.py: CartViewSet.add_item and CartViewSet.complete under
   concurrent requests. Money is in cents. A request takes two steps: its
   reads and tests, then its writes and its Response; pos/views.py opens no
   transaction and takes no lock, so another request may run between them. *)

\* sum(values)
RECURSIVE SumOf(_)
SumOf(values) == IF values = <<>> THEN 0 ELSE Head(values) + SumOf(Tail(values))

\* the records of a table
Range(table) == {table[i] : i \in 1..Len(table)}

\* Decimal.quantize(Decimal('0.01')) of cents * rate / 10000: half to even
QuantizeCents(cents, rate) ==
    LET whole == (cents * rate) \div 10000
        rest == (cents * rate) % 10000
    IN  IF rest > 5000 \/ (rest = 5000 /\ whole % 2 = 1) THEN whole + 1 ELSE whole

\* Cart.recalculate on the lines of the cart: the subtotal, tax_amount and total
Recalculated(cart) ==
    [cart EXCEPT !.subtotal = SumOf([i \in 1..Len(cart.lines) |-> cart.lines[i].line_total]),
                 !.tax_amount = QuantizeCents(
                     SumOf([i \in 1..Len(cart.lines) |-> cart.lines[i].line_total]),
                     cart.tax_rate),
                 !.total = SumOf([i \in 1..Len(cart.lines) |-> cart.lines[i].line_total])
                           + QuantizeCents(
                               SumOf([i \in 1..Len(cart.lines) |-> cart.lines[i].line_total]),
                               cart.tax_rate)]

\* the tests of add_item on the cart it read: the Response that ends it, or
\* <<>> when it goes on to create the line; sku is <<>> when the key is absent
AddItemRefusal(stock, sku) ==
    IF sku = <<>> \/ sku[1] = <<>> THEN <<HandlerResponse("error", "SKU is required.", EmptyDict)>>
    ELSE IF ~\E i \in 1..Len(stock) : stock[i].sku = sku[1]
    THEN <<HandlerResponse("not_found", "Item not found.", EmptyDict)>>
    ELSE IF (CHOOSE item \in Range(stock) : item.sku = sku[1]).status = "sold"
    THEN <<HandlerResponse("error", "Item already sold.", EmptyDict)>>
    ELSE <<>>

\* CartLine.objects.create and cart.recalculate(): item is the Item add_item
\* read, cart_id the cart it read; the table of carts afterwards
AddLine(table, cart_id, item) ==
    [c \in 1..Len(table) |->
        IF table[c].id # cart_id THEN table[c]
        ELSE Recalculated([table[c] EXCEPT
                 !.lines = Append(@, [item |-> <<item.id>>, description |-> item.title,
                                      quantity |-> 1, unit_price |-> item.price,
                                      line_total |-> item.price])])]

\* complete after its test, on the cart object it read: cart.save(), the
\* drawer, the items of the lines, the receipt. The body has payment_method
\* 'cash' and no other key.
CompleteWrites(table, stock, pos, cart) ==
    LET stored == CHOOSE c \in Range(table) : c.id = cart.id
        saved == [cart EXCEPT !.status = "completed", !.payment_method = "cash",
                              !.lines = stored.lines]
        sold == {stored.lines[i].item[1] : i \in {j \in 1..Len(stored.lines) :
                                                     stored.lines[j].item # <<>>}}
        duplicate == \E r \in 1..Len(pos.receipts) : pos.receipts[r].cart = cart.id
    IN  [carts |-> [c \in 1..Len(table) |-> IF table[c].id = cart.id THEN saved ELSE table[c]],
         items |-> [i \in 1..Len(stock) |->
                       IF stock[i].id \in sold THEN [stock[i] EXCEPT !.status = "sold"]
                       ELSE stock[i]],
         tables |-> [pos EXCEPT
                        !.cash_sales_total = @ + cart.total,
                        !.receipts = IF duplicate THEN @
                                     ELSE Append(@, [cart |-> cart.id,
                                                     receipt_number |-> Len(@) + 1])],
         out |-> IF duplicate THEN HandlerResponse("IntegrityError", "", EmptyDict)
                 ELSE HandlerResponse("ok", "", saved)]

\* an open Cart without lines, at the default tax rate of 0.0700
OpenCart(id) ==
    [id |-> id, status |-> "open", subtotal |-> 0, tax_rate |-> 700, tax_amount |-> 0,
     total |-> 0, payment_method |-> "cash", lines |-> <<>>]

\* the Item table of the shop: one item on the shelf
ShelfItems == <<[id |-> 1, sku |-> <<"I", "T", "M", "1">>, title |-> <<"c", "u", "p">>, price |-> 550,
                 status |-> "on_shelf", source |-> "purchased"]>>

\* the sku of a POST add-item body: absent, the item's, an unknown one
SkuInputs == {<<>>, <<<<"I", "T", "M", "1">>>>, <<<<"I", "T", "M", "9">>>>}

\* add-item is requested while the carts hold fewer than MaxCartLines lines
MaxCartLines == 2

InitCarts ==
    /\ argFormula = <<>>
    /\ argRow = <<>>
    /\ evalResult = NotCalled
    /\ validateResult = NotCalled
    /\ templates = <<>>
    /\ lastTemplateId = 0
    /\ orders = <<>>
    /\ manifest_rows = <<>>
    /\ items = ShelfItems
    /\ tables = [cash_sales_total |-> 0, receipts |-> <<>>]
    /\ carts = <<OpenCart(1), OpenCart(2)>>
    /\ calls = <<>>
    /\ request = [op |-> "none"]
    /\ response = [op |-> "none"]

otherVarsCarts ==
    <<argFormula, argRow, evalResult, validateResult, templates, lastTemplateId, orders,
      manifest_rows>>

\* the lines of all carts, and the add-item requests that may still add one
LinesInSight ==
    SumOf([c \in 1..Len(carts) |-> Len(carts[c].lines)])
        + Len(SelectSeq(calls, LAMBDA call : call.op = "add_item"))

\* POST /carts/{pk}/add-item/ arrives
ArriveAddItem ==
    /\ Len(calls) < MaxRequests
    /\ LinesInSight < MaxCartLines
    /\ \E pk \in 1..Len(carts), sku \in SkuInputs :
           calls' = Append(calls, [op |-> "add_item", pk |-> pk, data |-> [sku |-> sku],
                                      pc |-> "start", cart |-> <<>>, item |-> <<>>])
    /\ UNCHANGED <<otherVarsCarts, carts, items, tables, request, response>>

\* POST /carts/{pk}/complete/ arrives
ArriveComplete ==
    /\ Len(calls) < MaxRequests
    /\ \E pk \in 1..Len(carts) :
           calls' = Append(calls, [op |-> "complete", pk |-> pk, data |-> EmptyDict,
                                      pc |-> "start", cart |-> <<>>, item |-> <<>>])
    /\ UNCHANGED <<otherVarsCarts, carts, items, tables, request, response>>

\* call c ends with the Response out and is no longer being served
Respond(c, out) ==
    /\ calls' = [i \in 1..(Len(calls) - 1) |-> IF i < c THEN calls[i] ELSE calls[i + 1]]
    /\ request' = [op |-> calls[c].op, pk |-> calls[c].pk, data |-> calls[c].data]
    /\ response' = [op |-> calls[c].op, out |-> out]

\* add_item: get_object(), the sku, the item and its status, when one refuses
AddItemRefused ==
    \E c \in 1..Len(calls) :
        /\ calls[c].op = "add_item" /\ calls[c].pc = "start"
        /\ AddItemRefusal(items, calls[c].data.sku) # <<>>
        /\ Respond(c, AddItemRefusal(items, calls[c].data.sku)[1])
        /\ UNCHANGED <<otherVarsCarts, carts, items, tables>>

\* add_item: the tests pass; the request holds the cart and the item it read
AddItemReads ==
    \E c \in 1..Len(calls) :
        /\ calls[c].op = "add_item" /\ calls[c].pc = "start"
        /\ AddItemRefusal(items, calls[c].data.sku) = <<>>
        /\ calls' = [calls EXCEPT
                        ![c].pc = "read",
                        ![c].cart = <<carts[calls[c].pk]>>,
                        ![c].item = <<CHOOSE item \in Range(items) :
                                          item.sku = calls[c].data.sku[1]>>]
        /\ UNCHANGED <<otherVarsCarts, carts, items, tables, request, response>>

\* add_item: the line, the totals and the Response
AddItemWrites ==
    \E c \in 1..Len(calls) :
        /\ calls[c].op = "add_item" /\ calls[c].pc = "read"
        /\ carts' = AddLine(carts, calls[c].pk, calls[c].item[1])
        /\ Respond(c, HandlerResponse("ok", "",
                          [calls[c].cart[1] EXCEPT
                              !.subtotal = carts'[calls[c].pk].subtotal,
                              !.tax_amount = carts'[calls[c].pk].tax_amount,
                              !.total = carts'[calls[c].pk].total,
                              !.lines = carts'[calls[c].pk].lines]))
        /\ UNCHANGED <<otherVarsCarts, items, tables>>

\* complete: get_object() and the test of the status, when the cart is not open
CompleteRefused ==
    \E c \in 1..Len(calls) :
        /\ calls[c].op = "complete" /\ calls[c].pc = "start"
        /\ carts[calls[c].pk].status # "open"
        /\ Respond(c, HandlerResponse("error", "Cart is not open.", EmptyDict))
        /\ UNCHANGED <<otherVarsCarts, carts, items, tables>>

\* complete: the cart is open; the request holds the cart it read
CompleteReads ==
    \E c \in 1..Len(calls) :
        /\ calls[c].op = "complete" /\ calls[c].pc = "start"
        /\ carts[calls[c].pk].status = "open"
        /\ calls' = [calls EXCEPT ![c].pc = "read", ![c].cart = <<carts[calls[c].pk]>>]
        /\ UNCHANGED <<otherVarsCarts, carts, items, tables, request, response>>

\* complete: the cart, the drawer, the items, the receipt and the Response
CompleteSells ==
    \E c \in 1..Len(calls) :
        /\ calls[c].op = "complete" /\ calls[c].pc = "read"
        /\ \E done \in {CompleteWrites(carts, items, tables, calls[c].cart[1])} :
               /\ carts' = done.carts
               /\ items' = done.items
               /\ tables' = done.tables
               /\ Respond(c, done.out)
        /\ UNCHANGED otherVarsCarts

NextCarts ==
    \/ ArriveAddItem
    \/ ArriveComplete
    \/ AddItemRefused
    \/ AddItemReads
    \/ AddItemWrites
    \/ CompleteRefused
    \/ CompleteReads
    \/ CompleteSells

SpecCarts == InitCarts /\ [][NextCarts]_vars

---------------------------------------------------------------------------
(* The template table and resolve_manifest_mappings *)

SignatureInputs == {header_signature(HeadersQtyDescCost), header_signature(HeadersItems)}

\* column_mappings of a stored template: none, entries that do not survive
\* normalization, entries that do
SavedMappingInputs == {<<>>, <<UnknownTarget, NotAnObject>>, <<BrandUpperLegacy, NotesReplace>>}

\* the bodies POSTed to /templates/: every template of vendor 1, and for
\* vendor 2 the default templates whose mappings survive normalization
TemplateInputs ==
    {[vendor |-> 1, name |-> <<"S", "a", "v", "e", "d">>, header_signature |-> sig, is_default |-> is_default,
      column_mappings |-> column_mappings] :
         sig \in SignatureInputs, is_default \in BOOLEAN, column_mappings \in SavedMappingInputs}
    \cup {[vendor |-> 2, name |-> <<"S", "a", "v", "e", "d">>, header_signature |-> sig, is_default |-> TRUE,
            column_mappings |-> <<BrandUpperLegacy, NotesReplace>>] : sig \in SignatureInputs}

\* the columns of HeadersQtyDescCost in another order
HeadersDescQtyCost == <<<<"D", "e", "s", "c">>, <<"Q", "t", "y">>, <<"C", "o", "s", "t">>>>

HeaderInputs == {HeadersQtyDescCostLoose, HeadersItems, HeadersDescQtyCost}

\* template_id: None, 0, or an id the table may have handed out
TemplateIdInputs == {<<>>} \cup {<<id>> : id \in 0..MaxTemplates}

\* mappings_payload: none, entries that do not survive normalization, entries
\* that do
ResolvePayloadInputs == {<<>>, <<UnknownTarget, NotAnObject>>, <<DescriptionLeftQty, QuantityFromQty>>}

\* POST /templates/: the row gets the next id and the creation instant
\* (instants are counted in rows created)
CreateTemplate ==
    /\ response.op = "none"
    /\ lastTemplateId < MaxTemplates
    /\ \E data \in TemplateInputs :
        templates' = Append(templates,
                            [id |-> lastTemplateId + 1, vendor |-> data.vendor,
                             name |-> data.name,
                             header_signature |-> data.header_signature,
                             column_mappings |-> data.column_mappings,
                             is_default |-> data.is_default,
                             created_at |-> lastTemplateId + 1])
    /\ lastTemplateId' = lastTemplateId + 1
    /\ UNCHANGED <<argFormula, argRow, evalResult, validateResult, request, response, orders,
                   manifest_rows, storeVars>>

\* DELETE /templates/{id}/
DestroyTemplate ==
    /\ response.op = "none"
    /\ \E i \in 1..Len(templates) :
        templates' = SubSeq(templates, 1, i - 1) \o SubSeq(templates, i + 1, Len(templates))
    /\ UNCHANGED <<argFormula, argRow, evalResult, validateResult, lastTemplateId, request,
                   response, orders, manifest_rows, storeVars>>

\* resolve_manifest_mappings(order, headers, template_id, mappings_payload) for
\* an order of vendor 1
ResolveManifestMappings ==
    /\ response.op = "none"
    /\ \E headers \in HeaderInputs, template_id \in TemplateIdInputs,
          payload \in ResolvePayloadInputs :
        /\ request' = [op |-> "resolve", order |-> [vendor |-> 1, manifest |-> <<>>],
                       headers |-> headers, template_id |-> template_id,
                       mappings_payload |-> payload]
        /\ response' = [op |-> "resolve",
                        out |-> resolve_manifest_mappings(templates, [vendor |-> 1, manifest |-> <<>>],
                                                          headers, template_id, payload)]
    /\ UNCHANGED <<argFormula, argRow, evalResult, validateResult, templates, lastTemplateId,
                   orders, manifest_rows, storeVars>>

NextResolve == CreateTemplate \/ DestroyTemplate \/ ResolveManifestMappings

SpecResolve == Init /\ [][NextResolve]_vars

---------------------------------------------------------------------------
(* Inputs of the formula engine *)

\* the text NAME(arg,arg,...)
CallText(name, args) == name \o <<"(">> \o JoinWith(args, <<",">>) \o <<")">>

\* argument texts: column references (N is absent from some rows), a string
\* literal, and two nested calls (one short of arguments, one whose second
\* argument must convert to an integer)
ArgTexts == {<<"[", "A", "]">>, <<"[", "N", "]">>, <<"\"", "a", "\"">>, <<"U", "P", "P", "E", "R", "(", ")">>, <<"L", "E", "F", "T", "(", "[", "A", "]", ",", "[", "N", "]", ")">>}

ArgLists == UNION {[1..n -> ArgTexts] : n \in 0..MaxArgs}

CallFormulas == {CallText(FUNC_NAMES[k], args) : k \in 1..Len(FUNC_NAMES), args \in ArgLists}

\* formulas around the syntax: blank, literals, concatenation, grouping,
\* whitespace, unclosed and surplus parentheses, stray characters
SyntaxFormulas ==
    { <<>>, <<" ", " ">>, <<"[", "A", "]">>, <<"[", "M", "i", "s", "s", "i", "n", "g", "]">>, <<"1", "2">>, <<"0", "0", "7">>, <<"\"", "a", "\\", "\"", "b", "\"">>,
      <<"U", "P", "P", "E", "R", "(", "[", "A", "]", ")", " ", "+", " ", "\"", " ", "\"", " ", "+", " ", "[", "N", "]">>, <<"(", "L", "E", "F", "T", "(", "[", "A", "]", ",", " ", "2", ")", ")">>, <<" ", "T", "R", "I", "M", " ", "(", " ", "[", "A", "]", " ", ")", " ">>,
      <<"R", "I", "G", "H", "T", "(", "[", "A", "]", ",", " ", "0", ")">>, <<"L", "E", "F", "T", "(", "[", "A", "]", ",", " ", "\"", "x", "\"", ")", " ", "+", " ", "U", "P", "P", "E", "R", "(", ")">>, <<"L", "E", "F", "T", "(", "[", "A", "]", ",", " ", "\"", "-", "1", "\"", ")">>,
      <<"L", "E", "F", "T", "(", "[", "A", "]", ",", " ", "5", ")">>, <<"R", "I", "G", "H", "T", "(", "[", "A", "]", ",", " ", "5", ")">>, <<"L", "E", "F", "T", "(", "[", "A", "]", ",", " ", "0", ")">>, <<"R", "I", "G", "H", "T", "(", "[", "A", "]", ",", " ", "L", "E", "F", "T", "(", "\"", "2", "5", "\"", ",", " ", "1", ")", ")">>,
      <<"R", "I", "G", "H", "T", "(", "\"", "a", "b", "c", "\"", ",", " ", "\"", "-", "0", "\"", ")">>,
      <<"U", "P", "P", "E", "R", "(", "[", "A", "]">>, <<"U", "P", "P", "E", "R", "(", "[", "A", "]", ")", ")">>, <<"U", "P", "P", "E", "R", " ", "[", "A", "]">>, <<"U", "P", "P", "E", "R", "(", ",", ")">>, <<"[", "A", "]", " ", "+">>,
      <<"[", "A", "]", " ", "[", "N", "]">>, <<"a", "b", "c">>, <<"[", "A", "]", " ", "?", " ", "[", "N", "]">>, <<"[", "A", "]", " ", "$">>, <<"\"", "a">>, <<"[", "]">>, <<"(", ")">> }

FormulaInputs == SyntaxFormulas \cup CallFormulas

RowInputs ==
    { (<<"A">> :> <<" ", "s", "o", "n", "y", " ", "t", "v", " ">>) @@ (<<"N">> :> <<"2">>),
      (<<"A">> :> <<"a", "b", "c">>),
      <<>> }

---------------------------------------------------------------------------
(* The formula engine called through its public API *)

InitFormula ==
    /\ orders = <<>>
    /\ manifest_rows = <<>>
    /\ items = <<>>
    /\ tables = NoTables
    /\ carts = <<>>
    /\ calls = <<>>
    /\ argFormula \in FormulaInputs
    /\ argRow \in RowInputs
    /\ evalResult = NotCalled
    /\ validateResult = NotCalled
    /\ templates = <<>>
    /\ lastTemplateId = 0
    /\ request = <<>>
    /\ response = <<>>

EvaluateFormula ==
    /\ evalResult = NotCalled
    /\ evalResult' = <<evaluate_formula(argFormula, argRow)>>
    /\ UNCHANGED <<argFormula, argRow, validateResult, templates, lastTemplateId, request,
                   response, orders, manifest_rows, storeVars>>

ValidateFormula ==
    /\ validateResult = NotCalled
    /\ validateResult' = <<validate_formula(argFormula)>>
    /\ UNCHANGED <<argFormula, argRow, evalResult, templates, lastTemplateId, request, response,
                   orders, manifest_rows, storeVars>>

NextFormula == EvaluateFormula \/ ValidateFormula

SpecFormula == InitFormula /\ [][NextFormula]_vars

---------------------------------------------------------------------------
(* The parser called on token lists *)

\* one token of every kind tokenize produces
TokenInputs ==
    { [kind |-> "STRING", value |-> <<"a">>], [kind |-> "NUMBER", value |-> <<"1">>],
      [kind |-> "COLREF", value |-> <<"A">>], [kind |-> "FUNC", value |-> <<"U", "P", "P", "E", "R">>],
      [kind |-> "LPAREN", value |-> <<"(">>], [kind |-> "RPAREN", value |-> <<")">>],
      [kind |-> "COMMA", value |-> <<",">>], [kind |-> "PLUS", value |-> <<"+">>] }

\* every list of at most MaxTokens of these tokens, and the token lists of the
\* formulas above that tokenize
TokenListInputs ==
    UNION {[1..n -> TokenInputs] : n \in 0..MaxTokens}
        \cup {tokenize(StrStrip(f)).tokens : f \in {g \in FormulaInputs : ~tokenize(StrStrip(g)).err}}

InitParser ==
    /\ orders = <<>>
    /\ manifest_rows = <<>>
    /\ items = <<>>
    /\ tables = NoTables
    /\ carts = <<>>
    /\ calls = <<>>
    /\ argFormula = <<>>
    /\ argRow = <<>>
    /\ evalResult = NotCalled
    /\ validateResult = NotCalled
    /\ templates = <<>>
    /\ lastTemplateId = 0
    /\ request \in {[op |-> "parse", tokens |-> tokens] : tokens \in TokenListInputs}
    /\ response = [op |-> "none"]

\* Parser(tokens).parse()
Parse ==
    /\ response.op = "none"
    /\ response' = [op |-> "parse", out |-> parse(request.tokens)]
    /\ UNCHANGED <<argFormula, argRow, evalResult, validateResult, templates, lastTemplateId,
                   request, orders, manifest_rows, storeVars>>

NextParser == Parse

SpecParser == InitParser /\ [][NextParser]_vars

---------------------------------------------------------------------------
(* The tokenizer called on formula texts *)

\* the pieces formula texts are put together from: the quote, the backslash,
\* brackets, a parenthesis, a blank, a function name, a letter, a digit, a plus
PieceInputs == { <<"\"">>, <<"\\">>, <<"[">>, <<"]">>, <<"(">>, <<" ">>, <<"U", "P", "P", "E", "R">>, <<"a">>, <<"1">>, <<"+">> }

RECURSIVE Concat(_)
Concat(pieces) == IF pieces = <<>> THEN <<>> ELSE Head(pieces) \o Concat(Tail(pieces))

\* string literals: a quoted content of at most MaxPieces + 1 characters out
\* of the backslash, the quote, a letter and a blank
LiteralInputs ==
    {<<"\"">> \o content \o <<"\"">> :
        content \in UNION {[1..n -> {"\\", "\"", "n", " "}] : n \in 0..(MaxPieces + 1)}}

\* texts of at most MaxPieces pieces, the string literals, the formulas of the
\* engine's calls, and function names in lower case, before blanks and beside
\* other letters
TextInputs ==
    {Concat(pieces) : pieces \in UNION {[1..n -> PieceInputs] : n \in 0..MaxPieces}}
        \cup LiteralInputs
        \cup FormulaInputs
        \cup { <<"u", "p", "p", "e", "r", "(", "[", "A", "]", ")">>, <<"U", "P", "P", "E", "R", " ", " ", "(", "[", "A", "]", ")">>, <<"X", "U", "P", "P", "E", "R", "(", "[", "A", "]", ")">>, <<"[", "L", "E", "F", "T", "(", "]", " ", "+", " ", "\"", "R", "I", "G", "H", "T", "(", "\"", " ", "+", " ", "T", "R", "I", "M", "(", " ", "[", "a", "]", " ", ")">>,
               <<"[", "A", "]", " ", "?", " ", "[", "N", "]", " ", "$">>, <<" ", " ", "[", "A", "]", " ", " ">>, <<"[", "A", "]", " ", " ", "?">> }

InitTokenize ==
    /\ orders = <<>>
    /\ manifest_rows = <<>>
    /\ items = <<>>
    /\ tables = NoTables
    /\ carts = <<>>
    /\ calls = <<>>
    /\ argFormula = <<>>
    /\ argRow = <<>>
    /\ evalResult = NotCalled
    /\ validateResult = NotCalled
    /\ templates = <<>>
    /\ lastTemplateId = 0
    /\ request \in {[op |-> "tokenize", formula |-> formula] : formula \in TextInputs}
    /\ response = [op |-> "none"]

\* tokenize(formula)
Tokenize ==
    /\ response.op = "none"
    /\ response' = [op |-> "tokenize", out |-> tokenize(request.formula)]
    /\ UNCHANGED <<argFormula, argRow, evalResult, validateResult, templates, lastTemplateId,
                   request, orders, manifest_rows, storeVars>>

NextTokenize == Tokenize

SpecTokenize == InitTokenize /\ [][NextTokenize]_vars

---------------------------------------------------------------------------
(* Claims about the formula engine *)

Tokenizes(f) == ~tokenize(StrStrip(f)).err

Parses(f) == Tokenizes(f) /\ ~parse(tokenize(StrStrip(f)).tokens).err

AstOf(f) == parse(tokenize(StrStrip(f)).tokens).node

\* the arity the specification's function table gives each function
\* (max = -1: unbounded)
SpecArity(name) ==
    CASE name \in {<<"U", "P", "P", "E", "R">>, <<"L", "O", "W", "E", "R">>, <<"T", "I", "T", "L", "E">>, <<"T", "R", "I", "M">>} -> [min |-> 1, max |-> 1]
      [] name = <<"R", "E", "P", "L", "A", "C", "E">> -> [min |-> 3, max |-> 3]
      [] name \in {<<"L", "E", "F", "T">>, <<"R", "I", "G", "H", "T">>} -> [min |-> 2, max |-> 2]
      [] name = <<"C", "O", "N", "C", "A", "T">> -> [min |-> 1, max |-> -1]

TooFew(node) == Len(node.args) < SpecArity(node.name).min

TooMany(node) == SpecArity(node.name).max # -1 /\ Len(node.args) > SpecArity(node.name).max

\* the function calls of an AST
RECURSIVE CallsOf(_)
CallsOf(node) ==
    IF node.type = "FuncCall"
    THEN {node} \cup UNION {CallsOf(node.args[i]) : i \in 1..Len(node.args)}
    ELSE IF node.type = "ConcatOp" THEN CallsOf(node.left) \cup CallsOf(node.right)
    ELSE {}

ArityViolations(f) == {c \in CallsOf(AstOf(f)) : TooFew(c) \/ TooMany(c)}

\* a formula with tokens that tokenizes, parses and calls every function with
\* an argument count its arity allows
ValidFormula(f) ==
    /\ Parses(f)
    /\ tokenize(StrStrip(f)).tokens # <<>>
    /\ ArityViolations(f) = {}

\* C2: for every formula that tokenizes, parses and satisfies the arity of each
\* function it calls, and for every row, evaluate_formula returns a string; no
\* exception of any kind is raised, also when the row lacks a referenced column.
C2_ValidFormulaReturnsString ==
    (evalResult # NotCalled /\ (ValidFormula(argFormula) \/ StrStrip(argFormula) = <<>>))
        => evalResult[1].kind = "ok"

\* C3: validate_formula returns an error message exactly for the formulas that
\* have a syntax error or a function call whose argument count violates the
\* function's arity, and None for every other formula.
C3_ValidateCatchesSyntaxAndArity ==
    validateResult # NotCalled =>
        (~validateResult[1].isNone <=>
            (StrStrip(argFormula) # <<>>
             /\ (~Parses(argFormula) \/ ArityViolations(argFormula) # {})))

\* C4: whenever a function call of the formula has fewer arguments than the
\* function's minimum or more than its maximum, evaluate_formula raises
\* FormulaError and the message names a function and the bound it violates.
C4_ArityViolationRaisesFormulaError ==
    (evalResult # NotCalled /\ Parses(argFormula) /\ ArityViolations(argFormula) # {})
        => /\ evalResult[1].kind = "FormulaError"
           /\ \E c \in ArityViolations(argFormula) :
                /\ evalResult[1].msg.name = c.name
                /\ evalResult[1].msg.got = Len(c.args)
                /\ \/ /\ TooFew(c)
                      /\ evalResult[1].msg.id = "requires at least"
                      /\ evalResult[1].msg.n = SpecArity(c.name).min
                   \/ /\ TooMany(c)
                      /\ evalResult[1].msg.id = "accepts at most"
                      /\ evalResult[1].msg.n = SpecArity(c.name).max

---------------------------------------------------------------------------
(* Claims about the manifest pipeline *)

\* the rows parse_manifest_file reads from the order of a build request
ParsedRows == parse_manifest_file(request.order).rows

BuildReturned == response.op = "build" /\ response.out.kind = "ok"

\* C1: build_normalized_manifest_rows never aborts on a per-row failure: on a
\* manifest with usable rows, whatever the mappings, it returns one normalized
\* row per selected raw row together with the row counts.
C1_BatchNeverAborts ==
    (response.op = "build" /\ ParsedRows # <<>>)
        => /\ response.out.kind = "ok"
           /\ Len(response.out.normalized_rows)
                  = Len(FilteredRows(ParsedRows, request.selected_row_numbers))
           /\ response.out.rows_selected = Len(response.out.normalized_rows)
           /\ response.out.row_count_in_file = Len(ParsedRows)

\* the source the mapping list binds to a target (every source when the
\* target occurs more than once)
SourcesOf(mappings, target) ==
    {mappings[i].source : i \in {j \in 1..Len(mappings) : mappings[j].target = target}}

\* the headers that match an alias of the target, ignoring letter case and
\* surrounding blanks
AliasMatches(headers, target) ==
    {headers[i] : i \in {j \in 1..Len(headers) :
        \E k \in 1..Len(MANIFEST_SOURCE_ALIASES(target)) :
            StrLower(StrStrip(headers[j])) = MANIFEST_SOURCE_ALIASES(target)[k]}}

\* C5: with no explicit mapping and no template every target field is bound,
\* once, to a header matching one of its aliases, or to the empty source when
\* no header matches; for the headers Qty, Desc, Cost the quantity is bound to
\* Qty, the description to Desc, the retail value to Cost and every other
\* target to the empty source.
C5_AutoMappingBindsAliases ==
    (/\ BuildReturned
     /\ normalize_standard_mappings(request.mappings_payload) = <<>>
     /\ response.out.used_template = <<>>)
        => /\ \A target \in TargetFields :
                \E source \in AliasMatches(response.out.headers, target) \cup {<<>>} :
                    /\ SourcesOf(response.out.mappings, target) = {source}
                    /\ source = <<>> <=> AliasMatches(response.out.headers, target) = {}
           /\ response.out.headers = HeadersQtyDescCost
                => \A target \in TargetFields :
                     SourcesOf(response.out.mappings, target) =
                         { CASE target = "quantity" -> <<"Q", "t", "y">>
                             [] target = "description" -> <<"D", "e", "s", "c">>
                             [] target = "retail_value" -> <<"C", "o", "s", "t">>
                             [] OTHER -> <<>> }

\* the template rows of the vendor of the order of a resolve request
OwnTemplates ==
    {templates[i] : i \in {j \in 1..Len(templates) : templates[j].vendor = request.order.vendor}}

\* C6: resolve_manifest_mappings returns the normalized explicit payload when
\* an explicit mapping survives normalization, otherwise the normalized saved
\* mappings of the candidate template when there is one and they are not
\* empty, otherwise the default mappings; the list returned is never empty.
C6_ResolvePriority ==
    response.op = "resolve" =>
        LET explicit == normalize_standard_mappings(request.mappings_payload)
            candidate == response.out.used_template
            saved == IF candidate = <<>> THEN <<>>
                     ELSE normalize_standard_mappings(candidate[1].column_mappings)
        IN  /\ explicit # <<>> => response.out.mappings = explicit
            /\ (explicit = <<>> /\ saved # <<>>) => response.out.mappings = saved
            /\ (explicit = <<>> /\ saved = <<>>)
                   => response.out.mappings = default_column_mappings(request.headers)
            /\ response.out.mappings # <<>>

\* C6 witness: no explicit mapping survives and the saved mappings of the
\* candidate template are returned
C6_SavedMappingsReturned ==
    /\ response.op = "resolve"
    /\ request.mappings_payload # <<>>
    /\ normalize_standard_mappings(request.mappings_payload) = <<>>
    /\ response.out.used_template # <<>>
    /\ response.out.mappings
           = normalize_standard_mappings(response.out.used_template[1].column_mappings)

\* the templates of the vendor with the template_id of the request
TemplatesWithId ==
    {t \in OwnTemplates : request.template_id # <<>> /\ t.id = request.template_id[1]}

\* the templates of the vendor whose signature is the one of the headers
TemplatesWithSignature ==
    LET sig == header_signature(request.headers)
    IN  {t \in OwnTemplates : t.header_signature = sig}

\* t is preferred to u: marked default when u is not, else created later
PreferredTo(t, u) ==
    \/ t.is_default /\ ~u.is_default
    \/ t.is_default = u.is_default /\ t.created_at > u.created_at

\* C7: the candidate template is the one with the supplied template_id when it
\* belongs to the vendor of the order; otherwise the template of that vendor
\* whose header_signature is the signature of the headers, a default one
\* first, then the most recently created; never a template of another vendor.
C7_CandidateTemplate ==
    response.op = "resolve" =>
        LET candidate == response.out.used_template
        IN  /\ TemplatesWithId # {} => candidate # <<>> /\ candidate[1] \in TemplatesWithId
            /\ (TemplatesWithId = {} /\ TemplatesWithSignature # {})
                   => /\ candidate # <<>>
                      /\ candidate[1] \in TemplatesWithSignature
                      /\ \A u \in TemplatesWithSignature \ {candidate[1]} :
                             PreferredTo(candidate[1], u)
            /\ (TemplatesWithId = {} /\ TemplatesWithSignature = {}) => candidate = <<>>
            /\ candidate # <<>> => candidate[1].vendor = request.order.vendor

\* C7 witness: the template_id names a template of another vendor and the
\* candidate is the template of the vendor found by signature
C7_OtherVendorIdFallsBackToSignature ==
    /\ response.op = "resolve"
    /\ request.template_id # <<>>
    /\ \E i \in 1..Len(templates) :
          templates[i].id = request.template_id[1] /\ templates[i].vendor # request.order.vendor
    /\ response.out.used_template # <<>>
    /\ response.out.used_template[1] \in TemplatesWithSignature

\* the row numbers a selection names: a value names the integer it is the text of
NamedBy(selection, n) ==
    \E i \in 1..Len(selection) : PyInt(selection[i]).ok /\ PyInt(selection[i]).val = n

\* C8: when row numbers are selected the rows returned are the normalized rows
\* of the raw rows whose row_number the selection names, one each, in file
\* order, and rows_selected is their count; with no selection (None or an
\* empty list) every parsed row is returned.
C8_SelectionByRowNumber ==
    BuildReturned =>
        LET selection == IF request.selected_row_numbers = <<>> THEN <<>>
                         ELSE request.selected_row_numbers[1]
            expected == IF selection = <<>> THEN ParsedRows
                        ELSE SelectSeq(ParsedRows, LAMBDA r : NamedBy(selection, r.row_number))
        IN  /\ Len(response.out.normalized_rows) = Len(expected)
            /\ \A i \in 1..Len(expected) :
                   response.out.normalized_rows[i].row_number = expected[i].row_number
            /\ response.out.rows_selected = Len(expected)

\* the mapping in force for a target: the last object of the list naming it,
\* kept to its formula when the formula is not blank
InForce(mappings, target) ==
    LET idx == {i \in 1..Len(mappings) :
                    IsDict(mappings[i]) /\ Has(mappings[i], "target") /\ mappings[i].target = target}
        last == mappings[CHOOSE i \in idx : \A j \in idx : j <= i]
    IN  IF idx = {} THEN <<>>
        ELSE IF Has(last, "formula") /\ StrStrip(last.formula) # <<>>
        THEN <<[target |-> target, formula |-> last.formula]>>
        ELSE <<last>>

RECURSIVE MappingsInForce(_, _)
MappingsInForce(mappings, k) ==
    IF k > Len(MANIFEST_TARGET_FIELDS) THEN <<>>
    ELSE InForce(mappings, MANIFEST_TARGET_FIELDS[k]) \o MappingsInForce(mappings, k + 1)

TextTargets == TargetFields \ {"quantity", "retail_value"}

\* C9: normalize_row uses one mapping per target, the last of the list naming
\* it: the mappings before it, and the source and transforms beside a formula
\* that is not blank, change nothing in the outcome, and a text field whose
\* mapping holds a formula that is not blank and evaluates holds the formula's
\* value.
C9_LastMappingAndFormulaWin ==
    response.op = "normalize_row" =>
        /\ response.out = normalize_row(request.raw, request.row_number,
                                        MappingsInForce(request.column_mappings, 1))
        /\ \A target \in TextTargets :
               LET active == InForce(request.column_mappings, target)
               IN  (/\ response.out.kind = "ok"
                    /\ active # <<>>
                    /\ Has(active[1], "formula")
                    /\ StrStrip(active[1].formula) # <<>>
                    /\ evaluate_formula(active[1].formula, request.raw).kind = "ok")
                       => response.out.row[target]
                              = StrStrip(evaluate_formula(active[1].formula, request.raw).value)

\* C9 witness: two mappings name the brand, the last one holds a formula beside
\* a source, and the brand returned is the formula's value, not the source's
C9_FormulaOfLastMappingReturned ==
    /\ response.op = "normalize_row"
    /\ request.column_mappings = <<BrandFromCost, BrandFormulaAndSource>>
    /\ response.out.kind = "ok"
    /\ response.out.row.brand # <<>>
    /\ response.out.row.brand = StrLower(StrStrip(request.raw[<<"D", "e", "s", "c">>]))
    /\ response.out.row.brand # StrStrip(request.raw[<<"C", "o", "s", "t">>])

\* the value of a text of decimal digits
RECURSIVE DecimalValue(_)
DecimalValue(digits) ==
    IF digits = <<>> THEN 0
    ELSE 10 * DecimalValue(SubSeq(digits, 1, Len(digits) - 1)) + DigitVal(digits[Len(digits)])

\* the integer a text of digits and '-' is the numeral of: one optional
\* leading '-', then digits only
IsNumeral(text) ==
    /\ text # <<>>
    /\ \A i \in 2..Len(text) : IsDigit(text[i])
    /\ IsDigit(text[1]) \/ (text[1] = "-" /\ Len(text) > 1)

NumeralValue(text) ==
    IF text[1] = "-" THEN 0 - DecimalValue(Tail(text)) ELSE DecimalValue(text)

\* the quantity the claim gives a mapped value
QuantityOf(value) ==
    LET cleaned == SelectSeq(value, LAMBDA c : IsDigit(c) \/ c = "-")
    IN  IF IsNumeral(cleaned) /\ NumeralValue(cleaned) > 0 THEN NumeralValue(cleaned) ELSE 1

IsDecimalNumeral(text) ==
    LET body == IF text # <<>> /\ text[1] = "-" THEN Tail(text) ELSE text
    IN  \E k \in 0..Len(body) :
            /\ \A i \in 1..k : IsDigit(body[i])
            /\ \/ k = Len(body) /\ k > 0
               \/ /\ k < Len(body)
                  /\ body[k + 1] = "."
                  /\ \A i \in (k + 2)..Len(body) : IsDigit(body[i])
                  /\ Len(body) > 1

\* the number a decimal numeral denotes, as <<numerator, number of decimals>>
DecimalNumber(text) ==
    LET negative == text # <<>> /\ text[1] = "-"
        body == IF negative THEN Tail(text) ELSE text
        digits == SelectSeq(body, IsDigit)
        dot == {i \in 1..Len(body) : body[i] = "."}
        decimals == IF dot = {} THEN 0 ELSE Len(body) - (CHOOSE i \in dot : TRUE)
        magnitude == DecimalValue(digits)
    IN  <<IF negative THEN 0 - magnitude ELSE magnitude, decimals>>

\* the mapped value without every character other than digits, '.' and '-'
RetailText(value) ==
    SelectSeq(value, LAMBDA c : c \in {"0", "1", "2", "3", "4", "5", "6", "7", "8", "9", ".", "-"})

\* C11: the retail_value of a normalized row is null when the mapped value,
\* reduced to digits, '.' and '-', is empty or is no decimal number, and is
\* that decimal otherwise; computing it raises nothing to the caller of
\* normalize_row
C11_RetailValueNullOrDecimal ==
    response.op = "normalize_row" =>
        LET mapped == Mapped(request.raw, request.column_mappings, "retail_value")
            text == RetailText(mapped.value)
        IN  /\ mapped.kind = "ok"
            /\ response.out.kind = "ok" =>
                   IF text = <<>> \/ ~IsDecimalNumeral(text)
                   THEN response.out.row.retail_value.isNone
                   ELSE /\ ~response.out.row.retail_value.isNone
                        /\ DecimalNumber(response.out.row.retail_value.text) = DecimalNumber(text)


\* the texts of the raw row's cells, in header order
RawFieldTexts(raw_dict) ==
    [i \in 1..Len(HeadersQtyDescCost) |-> RowGet(raw_dict, HeadersQtyDescCost[i])]

\* the texts of the normalized row's fields other than row_number, in field
\* order: an integer as its numeral, null as the empty text
NormalizedFieldTexts(row) ==
    [i \in 1..Len(MANIFEST_TARGET_FIELDS) |->
        IF MANIFEST_TARGET_FIELDS[i] = "quantity" THEN IntToStr(row.quantity)
        ELSE IF MANIFEST_TARGET_FIELDS[i] = "retail_value"
        THEN (IF row.retail_value.isNone THEN <<>> ELSE DecimalStr(row.retail_value.text))
        ELSE row[MANIFEST_TARGET_FIELDS[i]]]

\* the term is empty once trimmed, or is in the concatenation of the texts
\* whatever the letter case
MatchesConcatenation(texts, search_term) ==
    LET term == IF search_term = <<>> THEN <<>> ELSE StrStrip(search_term[1])
    IN  term = <<>> \/ Contains(StrLower(StrJoin(texts)), StrLower(term))

\* C12: the raw-row and the normalized-row search predicates return true
\* exactly when the trimmed search term is empty or is, in any letter case, a
\* substring of the concatenation of the row's field values other than
\* row_number
C12_SearchMatchesConcatenation ==
    /\ response.op = "row_matches_search" =>
           response.out = MatchesConcatenation(RawFieldTexts(request.raw_dict),
                                               request.search_term)
    /\ response.op = "normalized_row_matches_search" =>
           response.out = MatchesConcatenation(NormalizedFieldTexts(request.row),
                                               request.search_term)

\* a transform of the persisted shape: {type, from?, to?}
IsCanonicalTransform(transform) ==
    /\ IsDict(transform)
    /\ "type" \in DOMAIN transform
    /\ DOMAIN transform \subseteq {"type", "from", "to"}
    /\ transform.type # ""

\* a mapping of the persisted shape with a valid target: {target, formula} or
\* {target, source, transforms}
IsCanonicalMapping(mapping) ==
    /\ IsDict(mapping)
    /\ "target" \in DOMAIN mapping
    /\ mapping.target \in TargetFields
    /\ \/ DOMAIN mapping = {"target", "formula"} /\ mapping.formula # <<>>
       \/ /\ DOMAIN mapping = {"target", "source", "transforms"}
          /\ \A i \in 1..Len(mapping.transforms) : IsCanonicalTransform(mapping.transforms[i])

\* C13: normalize_standard_mappings emits every mapping of the persisted shape
\* unchanged, and normalizing its own output again changes nothing
C13_MappingsRoundTrip ==
    response.op = "normalize_standard_mappings" =>
        /\ (\A i \in 1..Len(request.mappings) : IsCanonicalMapping(request.mappings[i]))
               => response.out = request.mappings
        /\ normalize_standard_mappings(response.out) = response.out

HeaderLists == HeaderInputs \cup {HeadersQtyDescCost}

\* the header list with each header trimmed and in lower case, in file order
TrimmedLowered(headers) == [i \in 1..Len(headers) |-> StrLower(StrStrip(headers[i]))]

\* the signature of the request is stored with a template of the order's vendor
SignatureStored ==
    \E i \in 1..Len(templates) :
        templates[i].vendor = request.order.vendor
            /\ templates[i].header_signature = response.out.sig

\* C15: header_signature is a function of the trimmed, lowercased header list
\* in file order: whatever the templates stored and the other arguments of the
\* call, a header list that differs from the request's only in letter case or
\* in blanks around headers has the signature the call computed
C15_SignatureOfTrimmedLoweredHeaders ==
    response.op = "resolve" =>
        \A other \in HeaderLists :
            TrimmedLowered(other) = TrimmedLowered(request.headers)
                => header_signature(other) = response.out.sig

\* C15 witness: headers in other letter case and with blanks around them are
\* resolved to the template stored under the signature of the plain headers
C15_LooseHeadersMatchStoredSignature ==
    /\ response.op = "resolve"
    /\ request.headers = HeadersQtyDescCostLoose
    /\ request.template_id = <<>>
    /\ response.out.used_template # <<>>
    /\ response.out.used_template[1].header_signature = header_signature(HeadersQtyDescCost)

\* list a holds the headers of list b, each as often, in some column order
SameHeadersReordered(a, b) ==
    /\ Len(a) = Len(b)
    /\ \A h \in {a[i] : i \in 1..Len(a)} \cup {b[i] : i \in 1..Len(b)} :
           Cardinality({i \in 1..Len(a) : a[i] = h}) = Cardinality({i \in 1..Len(b) : b[i] = h})

\* C16 as stated: the signature is taken of the sorted header list, so a
\* header list holding the request's headers in another column order has the
\* signature the call computed and matches the template stored under it
C16_SignatureIgnoresColumnOrder ==
    response.op = "resolve" =>
        \A other \in HeaderLists :
            SameHeadersReordered(TrimmedLowered(other), TrimmedLowered(request.headers)) =>
                /\ header_signature(other) = response.out.sig
                /\ (\E i \in 1..Len(templates) :
                        /\ templates[i].vendor = request.order.vendor
                        /\ templates[i].header_signature = header_signature(other))
                       => response.out.used_template # <<>>

\* C16 amended: the signature is taken of the trimmed, lowercased header list
\* in file order, so a header list has the signature the call computed exactly
\* when it holds the same headers in the same order, and the lookup by
\* signature finds a template exactly when one of the vendor is stored under
\* the signature in file order
C16_SignatureKeepsColumnOrder ==
    response.op = "resolve" =>
        /\ \A other \in HeaderLists :
               header_signature(other) = response.out.sig
                   <=> TrimmedLowered(other) = TrimmedLowered(request.headers)
        /\ (request.template_id = <<>> \/ TemplatesWithId = {})
               => (response.out.used_template # <<>> <=> SignatureStored)

\* C16 witness: the columns Qty, Desc, Cost arrive in another order and the
\* vendor's template stored for the first order is not matched
C16_ReorderedHeadersMatchNoTemplate ==
    /\ response.op = "resolve"
    /\ request.headers = HeadersDescQtyCost
    /\ request.template_id = <<>>
    /\ \E i \in 1..Len(templates) :
           /\ templates[i].vendor = request.order.vendor
           /\ templates[i].header_signature = header_signature(HeadersQtyDescCost)
    /\ response.out.used_template = <<>>

\* the first and the last n characters of s, all of s when it is shorter
FirstChars(s, n) == [i \in 1..(IF n < Len(s) THEN n ELSE Len(s)) |-> s[i]]

LastChars(s, n) ==
    LET m == IF n < Len(s) THEN n ELSE Len(s)
    IN  [i \in 1..m |-> s[Len(s) - m + i]]

\* the formula is one call of LEFT or RIGHT on two arguments
IsLeftRightCall(f) ==
    /\ Parses(f)
    /\ AstOf(f).type = "FuncCall"
    /\ AstOf(f).name \in {<<"L", "E", "F", "T">>, <<"R", "I", "G", "H", "T">>}
    /\ Len(AstOf(f).args) = 2

\* C17: when the second argument of LEFT or RIGHT, a literal or the value of
\* a sub-expression, is the numeral of a non-negative integer N, LEFT(s, N) is
\* the first min(N, length of s) characters of s and RIGHT(s, N) the last
\* min(N, length of s); RIGHT(s, 0) is the empty string
C17_LeftRightTakeNChars ==
    (evalResult # NotCalled /\ IsLeftRightCall(argFormula)) =>
        LET s == evaluate_ast(AstOf(argFormula).args[1], argRow)
            n == evaluate_ast(AstOf(argFormula).args[2], argRow)
        IN  (s.kind = "ok" /\ n.kind = "ok" /\ IsNumeral(n.value) /\ NumeralValue(n.value) >= 0)
                => evalResult[1] =
                       Returned(IF AstOf(argFormula).name = <<"L", "E", "F", "T">>
                                THEN FirstChars(s.value, NumeralValue(n.value))
                                ELSE LastChars(s.value, NumeralValue(n.value)))

\* C17 witness: RIGHT of a non-empty text and 0 has returned the empty string
C17_RightOfZeroIsEmpty ==
    /\ evalResult # NotCalled
    /\ argFormula = <<"R", "I", "G", "H", "T", "(", "[", "A", "]", ",", " ", "0", ")">>
    /\ RowGet(argRow, <<"A">>) # <<>>
    /\ evalResult[1] = Returned(<<>>)

\* the preview of the same request without a search term and with the largest
\* preview_limit
UnfilteredPreview ==
    preview_standardize(templates, orders[request.pk],
                        [request.data EXCEPT !.search_term = <<>>, !.preview_limit = <<<<"2", "5", "0">>>>])

\* the number of rows a preview_limit asks for, between 1 and 250
PreviewLimitOf(preview_limit) ==
    LET limit == IF preview_limit = <<>> THEN 50 ELSE parse_int(preview_limit[1], 50)
    IN  IF limit > 250 THEN 250 ELSE IF limit < 1 THEN 1 ELSE limit

\* C18: preview-standardize, with or without a search term, creates, updates
\* and deletes no ManifestRow and no CSVTemplate and leaves the order as it is;
\* the search term only filters the rows of the preview: they are the rows of
\* the preview without a search term that the term matches, up to the limit
C18_PreviewLeavesStoredData ==
    /\ [][response'.op = "preview_standardize" =>
             /\ manifest_rows' = manifest_rows
             /\ templates' = templates
             /\ lastTemplateId' = lastTemplateId
             /\ orders' = orders]_vars
    /\ []((response.op = "preview_standardize" /\ response.out.kind = "ok") =>
             /\ UnfilteredPreview.kind = "ok"
             /\ response.out.body.normalized_preview =
                    Take(SelectSeq(UnfilteredPreview.body.normalized_preview,
                                   LAMBDA row : normalized_row_matches_search(
                                                    row, request.data.search_term)),
                         PreviewLimitOf(request.data.preview_limit))
             /\ response.out.body.row_count_in_file = UnfilteredPreview.body.row_count_in_file)

\* C18 witness: with manifest rows and a template stored, a preview with a
\* search term has returned fewer rows than the file holds
C18_FilteredPreviewOverStoredRows ==
    /\ response.op = "preview_standardize"
    /\ response.out.kind = "ok"
    /\ request.data.search_term # <<>>
    /\ manifest_rows # <<>>
    /\ templates # <<>>
    /\ Len(response.out.body.normalized_preview) < Len(UnfilteredPreview.body.normalized_preview)

---------------------------------------------------------------------------
(* C19: the fields of a normalized row are computed independently *)

\* the value normalize_row gives a target: the field of the row it returns,
\* and no value when the call raises
FieldValue(out, target) == IF out.kind = "ok" THEN <<out.row[target]>> ELSE <<>>

\* mapping lists that differ from the request's only in the mappings of other
\* targets: the mapping in force for the target is the same
SameMappingFor(target) ==
    {other \in MappingListInputs :
        InForce(other, target) = InForce(request.column_mappings, target)}

\* C19: the value normalize_row gives a target field depends only on the raw
\* row and the mapping in force for that target: every mapping list with the
\* same mapping for the target, whatever it holds for the other targets (other
\* mappings, none, or formulas that fail), gives the field the same value
C19_FieldsComputedIndependently ==
    response.op = "normalize_row" =>
        \A target \in TargetFields :
            \A other \in SameMappingFor(target) :
                FieldValue(normalize_row(request.raw, request.row_number, other), target)
                    = FieldValue(response.out, target)

---------------------------------------------------------------------------
(* C20: the token lists Parser.parse accepts *)

RECURSIVE IsExpr(_, _, _)
RECURSIVE IsPrimary(_, _, _)
RECURSIVE IsArgs(_, _, _)

\* tokens[i..j] is derivable from expr := primary ('+' primary)*
IsExpr(tokens, i, j) ==
    \/ IsPrimary(tokens, i, j)
    \/ \E m \in (i + 1)..(j - 1) :
           /\ tokens[m].kind = "PLUS"
           /\ IsExpr(tokens, i, m - 1)
           /\ IsPrimary(tokens, m + 1, j)

\* tokens[i..j] is derivable from expr (',' expr)*
IsArgs(tokens, i, j) ==
    \/ IsExpr(tokens, i, j)
    \/ \E m \in (i + 1)..(j - 1) :
           /\ tokens[m].kind = "COMMA"
           /\ IsArgs(tokens, i, m - 1)
           /\ IsExpr(tokens, m + 1, j)

\* tokens[i..j] is derivable from
\* primary := STRING | NUMBER | COLREF | FUNC '(' [expr (',' expr)*] ')' | '(' expr ')'
IsPrimary(tokens, i, j) ==
    \/ i = j /\ tokens[i].kind \in {"STRING", "NUMBER", "COLREF"}
    \/ /\ j >= i + 2
       /\ tokens[i].kind = "FUNC"
       /\ tokens[i + 1].kind = "LPAREN"
       /\ tokens[j].kind = "RPAREN"
       /\ j = i + 2 \/ IsArgs(tokens, i + 2, j - 1)
    \/ /\ j >= i + 2
       /\ tokens[i].kind = "LPAREN"
       /\ tokens[j].kind = "RPAREN"
       /\ IsExpr(tokens, i + 1, j - 1)

Derivable(tokens) == IsExpr(tokens, 1, Len(tokens))

\* C20: Parser.parse returns a node for a token list exactly when the list is
\* derivable from the grammar expr := primary ('+' primary)*, primary := STRING
\* | NUMBER | COLREF | FUNC '(' [expr (',' expr)*] ')' | '(' expr ')', and
\* raises FormulaError for every other list
C20_ParseAcceptsTheGrammar ==
    response.op = "parse" =>
        /\ ~response.out.err <=> Derivable(request.tokens)
        /\ response.out.err => response.out.msg # NoMessage

\* C20 witness: a call with two arguments, one of them a call, is accepted
C20_NestedCallAccepted ==
    /\ response.op = "parse"
    /\ ~response.out.err
    /\ response.out.node.type = "FuncCall"
    /\ Len(response.out.node.args) = 2
    /\ response.out.node.args[2].type = "FuncCall"

---------------------------------------------------------------------------
(* C21: the errors and the tokens of tokenize *)

\* the first run of characters of s, from index p on, that no token pattern
\* matches, with its 0-based position; <<>> when the patterns match all of s
RECURSIVE UnmatchedFrom(_, _)
UnmatchedFrom(s, p) ==
    LET Gap(m) ==
            IF m.kind = "NONE"
            THEN IF p <= Len(s) THEN <<[text |-> SubSeq(s, p, Len(s)), pos |-> p - 1]>>
                 ELSE <<>>
            ELSE IF m.start # p
            THEN <<[text |-> SubSeq(s, p, m.start - 1), pos |-> p - 1]>>
            ELSE UnmatchedFrom(s, m.stop + 1)
    IN  Gap(NextMatch(s, p))

\* s without its whitespace
Squeeze(s) == SelectSeq(s, LAMBDA c : ~IsSpace(c))

\* the source text of a token whose text holds no escape
RECURSIVE Render(_)
Render(tokens) ==
    IF tokens = <<>> THEN <<>>
    ELSE (IF Head(tokens).kind = "STRING" THEN <<"\"">> \o Head(tokens).value \o <<"\"">>
          ELSE IF Head(tokens).kind = "COLREF" THEN <<"[">> \o Head(tokens).value \o <<"]">>
          ELSE Head(tokens).value) \o Render(Tail(tokens))

\* C21: when the formula holds characters no token pattern matches, between
\* tokens or after the last one, tokenize raises a FormulaError that cites
\* those characters and their position; otherwise it returns the tokens in
\* source order, without the whitespace
C21_TokenizeCitesTextAndPosition ==
    response.op = "tokenize" =>
        LET bad == UnmatchedFrom(request.formula, 1)
        IN  IF bad # <<>>
            THEN /\ response.out.err
                 /\ response.out.msg.text = bad[1].text
                 /\ response.out.msg.pos = bad[1].pos
            ELSE /\ ~response.out.err
                 /\ \A i \in 1..Len(response.out.tokens) :
                        response.out.tokens[i].kind # "WS"
                 /\ (\A i \in 1..Len(request.formula) : request.formula[i] # "\\")
                        => Squeeze(Render(response.out.tokens)) = Squeeze(request.formula)

---------------------------------------------------------------------------
(* C22: FUNC tokens, column references and string literals *)

\* s is '[' name ']' with a name that is not empty and holds no ']'
IsBracketed(s) ==
    /\ Len(s) >= 3
    /\ s[1] = "[" /\ s[Len(s)] = "]"
    /\ \A i \in 2..(Len(s) - 1) : s[i] # "]"

\* content reads, from left to right, as characters other than the quote and
\* the backslash and as pairs of a backslash and a character
RECURSIVE IsLiteralContent(_)
IsLiteralContent(content) ==
    IF content = <<>> THEN TRUE
    ELSE IF Head(content) = "\""  THEN FALSE
    ELSE IF Head(content) = "\\"
         THEN /\ Len(content) >= 2
              /\ content[2] # "\n"
              /\ IsLiteralContent(SubSeq(content, 3, Len(content)))
    ELSE IsLiteralContent(Tail(content))

\* s is a quote, such a content and a quote
IsLiteral(s) ==
    /\ Len(s) >= 2
    /\ s[1] = "\"" /\ s[Len(s)] = "\""
    /\ IsLiteralContent(SubSeq(s, 2, Len(s) - 1))

\* C22: a FUNC token is one of the eight function names and the token after it
\* is the '('; a bracketed column reference, whatever its name holds, is one
\* COLREF token, and a string literal, whatever it holds, is one STRING token
C22_FuncOnlyBeforeParen ==
    response.op = "tokenize" =>
        /\ ~response.out.err =>
               \A i \in 1..Len(response.out.tokens) :
                   response.out.tokens[i].kind = "FUNC" =>
                       /\ \E k \in 1..Len(FUNC_NAMES) : response.out.tokens[i].value = FUNC_NAMES[k]
                       /\ i < Len(response.out.tokens)
                       /\ response.out.tokens[i + 1].kind = "LPAREN"
        /\ IsBracketed(request.formula) =>
               /\ ~response.out.err
               /\ response.out.tokens =
                      <<[kind |-> "COLREF",
                         value |-> SubSeq(request.formula, 2, Len(request.formula) - 1)]>>
        /\ IsLiteral(request.formula) =>
               /\ ~response.out.err
               /\ Len(response.out.tokens) = 1
               /\ response.out.tokens[1].kind = "STRING"

\* C22 witness: the column named UPPER( is one COLREF token
C22_ColumnNamedLikeCall ==
    /\ response.op = "tokenize"
    /\ ~response.out.err
    /\ response.out.tokens = <<[kind |-> "COLREF", value |-> <<"U", "P", "P", "E", "R", "(">>]>>

---------------------------------------------------------------------------
(* C23: the value of a string literal *)

\* content read from left to right: a backslash and a quote give the quote, a
\* backslash and a backslash give one backslash, a backslash and any other
\* character stay as they are
RECURSIVE DecodePairs(_)
DecodePairs(content) ==
    IF content = <<>> THEN <<>>
    ELSE IF Head(content) = "\\" /\ Len(content) >= 2
    THEN (IF content[2] \in {"\"", "\\"} THEN <<content[2]>> ELSE <<"\\", content[2]>>)
             \o DecodePairs(SubSeq(content, 3, Len(content)))
    ELSE <<Head(content)>> \o DecodePairs(Tail(content))

\* C23: the value of a string literal is its content with the escape pairs
\* decoded from left to right: backslash-quote is a quote, backslash-backslash
\* is a backslash, and a backslash before any other character is kept
C23_LiteralDecodedByPairs ==
    (response.op = "tokenize" /\ IsLiteral(request.formula)) =>
        /\ ~response.out.err
        /\ response.out.tokens[1].value =
               DecodePairs(SubSeq(request.formula, 2, Len(request.formula) - 1))

\* C23 witness: the literal of an escaped quote, an escaped backslash and the
\* letter n holds a quote, a backslash and the letter n
C23_EscapedQuoteAndBackslash ==
    /\ response.op = "tokenize"
    /\ request.formula = <<"\"", "\\", "\"", "\\", "\\", "n", "\"">>
    /\ ~response.out.err
    /\ response.out.tokens = <<[kind |-> "STRING", value |-> <<"\"", "\\", "n">>]>>

---------------------------------------------------------------------------
(* C27: a rejected process-manifest request *)

\* C27: a process-manifest request answered with 'No rows selected for
\* processing.' creates and modifies no CSVTemplate and keeps the ManifestRow
\* records that exist
C27_RejectedRequestStoresNothing ==
    [][(/\ response'.op = "process_manifest"
        /\ response'.out.kind = "error"
        /\ response'.out.detail = "No rows selected for processing.")
           => /\ templates' = templates
              /\ lastTemplateId' = lastTemplateId
              /\ manifest_rows' = manifest_rows]_vars

\* the items of the Item table created from ManifestRow row
ItemsFromRow(row) == SelectSeq(items, LAMBDA item : item.manifest_row = <<row.id>>)

\* every request has its Response
AllAnswered == \A c \in 1..Len(calls) : calls[c].pc = "done"

\* C24: under any interleaving of deliver and create-items requests the
\* check-in queue of an order is built at most once: when every request has
\* its response, each manifest row of the order has yielded exactly its
\* quantity of items, or none when the queue was never built, and the order
\* has at most one processing batch.
C24_QueueBuiltAtMostOnce ==
    AllAnswered =>
        /\ \A i \in 1..Len(manifest_rows) :
               Len(ItemsFromRow(manifest_rows[i])) \in {0, manifest_rows[i].quantity}
        /\ Len(tables.processing_batches) <= 1

\* C29: after any sequence of mark-paid, revert-paid, mark-shipped,
\* revert-shipped, deliver and revert-delivered on an order created 'ordered'
\* without a paid date, the order is 'paid' only if its paid_date is set and
\* 'ordered' only if it is not set, and revert-shipped and revert-delivered
\* answer 'paid' exactly when the paid_date is set and 'ordered' otherwise.
C29_StatusAgreesWithPaidDate ==
    /\ HasFirst =>
           /\ OrderOf(CurrentDB, 1).status = "paid" => OrderOf(CurrentDB, 1).paid_date # <<>>
           /\ OrderOf(CurrentDB, 1).status = "ordered" => OrderOf(CurrentDB, 1).paid_date = <<>>
    /\ response.op \in {"revert_shipped", "revert_delivered"} =>
           response.out.body.status =
               IF response.out.body.paid_date # <<>> THEN "paid" ELSE "ordered"

\* the items of order PO-1 in status 'intake' or 'processing'
PendingItems ==
    SelectSeq(ItemsOf(CurrentDB, 1), LAMBDA item : item.status \in {"intake", "processing"})

\* C30: mark-complete sets the order status to 'complete' only when the order
\* has no item in status 'intake' or 'processing'; otherwise it answers an
\* error naming the number of pending items and leaves the order as it was.
C30_CompleteOnlyWithoutPending ==
    [][response'.op = "mark_complete" =>
          IF PendingItems = <<>>
          THEN /\ response'.out.kind = "ok"
               /\ \E i \in 1..Len(orders') : orders'[i].id = 1 /\ orders'[i].status = "complete"
          ELSE /\ response'.out.kind = "error"
               /\ response'.out.detail = "item(s) still pending processing."
               /\ response'.out.body.pending = Len(PendingItems)
               /\ orders' = orders]_vars

\* mark-complete was refused for an order whose only pending item is in
\* status 'processing'
C30_RefusedForProcessingItem ==
    /\ response.op = "mark_complete"
    /\ response.out.kind = "error"
    /\ PendingItems # <<>>
    /\ \A i \in 1..Len(PendingItems) : PendingItems[i].status = "processing"

\* the items of order PO-1 that point at the ManifestRow they were created from
ItemsBuiltFromRows == SelectSeq(ItemsOf(CurrentDB, 1), LAMBDA item : item.manifest_row # <<>>)

\* C25: while an order has items created from its manifest, a
\* clear-manifest-rows or process-manifest request on it is blocked with an
\* error and the ManifestRow records the items were built from remain.
C25_RowsOfItemsAreKept ==
    [][(response'.op \in {"clear_manifest_rows", "process_manifest"} /\ ItemsBuiltFromRows # <<>>)
          => /\ response'.out.kind = "error"
             /\ \A i \in 1..Len(ItemsBuiltFromRows) :
                    \E r \in 1..Len(manifest_rows') :
                        manifest_rows'[r].id = ItemsBuiltFromRows[i].manifest_row[1]]_vars

\* the records of a table that stay when the items of ids are deleted
NotOfItemIds(records, ids) == SelectSeq(records, LAMBDA rec : rec.item \notin ids)

\* C28: purge-delete with a missing or non-matching confirm_order_number
\* answers an error and deletes nothing; with the matching order number it
\* removes the order and exactly the item history, item scans, items, batch
\* groups, processing batches and manifest rows it owns, and removes the
\* manifest file record only when no other order references the file.
C28_PurgeDeletesOwnedRecords ==
    [][response'.op = "purge_delete" =>
          LET pk == request'.pk
              given == request'.data.confirm_order_number
              order == OrderOf(CurrentDB, pk)
              owned == {items[i].id : i \in {j \in 1..Len(items) :
                                                items[j].purchase_order = <<pk>>}}
              referenced == \E i \in 1..Len(orders) :
                                /\ orders[i].id # pk
                                /\ orders[i].manifest # <<>>
                                /\ orders[i].manifest[1].id = order.manifest[1].id
          IN  IF given = <<>> \/ StrStrip(given[1]) # order.order_number
              THEN /\ response'.out.kind = "error"
                   /\ UNCHANGED <<orders, manifest_rows, items, tables>>
              ELSE /\ response'.out.kind = "ok"
                   /\ orders' = SelectSeq(orders, LAMBDA o : o.id # pk)
                   /\ items' = SelectSeq(items, LAMBDA item : item.id \notin owned)
                   /\ manifest_rows' = SelectSeq(manifest_rows,
                                                 LAMBDA row : row.purchase_order # pk)
                   /\ tables'.item_history = NotOfItemIds(tables.item_history, owned)
                   /\ tables'.item_scans = NotOfItemIds(tables.item_scans, owned)
                   /\ tables'.batch_groups =
                          SelectSeq(tables.batch_groups, LAMBDA g : g.purchase_order # <<pk>>)
                   /\ tables'.processing_batches =
                          SelectSeq(tables.processing_batches, LAMBDA b : b.purchase_order # pk)
                   /\ tables'.products = tables.products
                   /\ tables'.files = IF order.manifest # <<>> /\ ~referenced
                                      THEN tables.files \ {order.manifest[1].id}
                                      ELSE tables.files]_vars

\* an order with items was purged while another order referenced its
\* manifest file, and the file record is still there
C28_PurgedOrderSharingFile ==
    /\ response.op = "purge_delete"
    /\ response.out.kind = "ok"
    /\ response.out.body.deleted.items > 0
    /\ response.out.body.manifest_file_shared
    /\ tables.files # {}

\* the completed carts that hold a line of the item
CompletedCartsOf(item) ==
    {c \in 1..Len(carts) :
        /\ carts[c].status = "completed"
        /\ \E i \in 1..Len(carts[c].lines) : carts[c].lines[i].item = <<item.id>>}

\* C26: an item is sold through at most one completed cart: under any
\* interleaving of add-item and complete requests, at most one completed cart
\* holds a line of the item.
C26_SoldThroughOneCart ==
    \A i \in 1..Len(items) : Cardinality(CompletedCartsOf(items[i])) <= 1
====
